---- MODULE Spec2Model ----
(***************************************************************************)
(* Reconcile flows of the thanos-operator: the ThanosReceive (ingestion    *)
(* tier) and ThanosQuery (query tier) controllers, the object applier loop *)
(* they share, and the hashring configuration synthesis.                   *)
(*                                                                         *)
(* Strings that are compared or concatenated by the program are modelled   *)
(* as sequences of ASCII codes, so that formatting and lexicographic       *)
(* ordering are computed, not assumed.                                     *)
(***************************************************************************)
EXTENDS Integers, Sequences, FiniteSets, TLC

VARIABLES receiver, query, slices, services, objects, last,
          queue, inflight, metrics, passes, queriers, queryQueue, mapped

\* the work queue of the ThanosReceive controller, the passes it has in
\* flight, its counters, the passes counted by an observer; the ThanosQuery
\* objects the Service watch lists and the work queue of their controller;
\* what the map function of a watch returned for the event just handled
controllerVars == <<queue, inflight, metrics, passes, queriers, queryQueue, mapped>>

vars == <<receiver, query, slices, services, objects, last,
          queue, inflight, metrics, passes, queriers, queryQueue, mapped>>

----------------------------------------------------------------------------
(* Bounds *)

\* most hashrings one ThanosReceive spec declares
MaxHashrings == 2

\* most objects of one pass whose ownership linkage or create-or-update fails
MaxFailures == 1

\* most services beside a ThanosQuery that is followed over all labellings
MaxServices == 2

\* most passes counted while the counters of the reconciler are followed
MaxPasses == 4

\* most endpoint slices present while the endpoint-slice watch is followed
MaxSlices == 2

----------------------------------------------------------------------------
(* Names (ASCII) *)

\* "ns"
Namespace == <<110, 115>>
\* "tr"
ReceiveName == <<116, 114>>
\* "tq"
QueryName == <<116, 113>>
\* the hashring names users declare, in the order they declare them:
\* "b", "a", "c", "d"
DeclaredNames == << <<98>>, <<97>>, <<99>>, <<100>> >>
\* "some-hostname"
SomeHostname == <<115, 111, 109, 101, 45, 104, 111, 115, 116, 110, 97, 109, 101>>
\* "some-hostname-b"
SomeHostnameB == SomeHostname \o <<45, 98>>
\* "some-hostname-c"
SomeHostnameC == SomeHostname \o <<45, 99>>
\* "test-tenant"
TestTenant == <<116, 101, 115, 116, 45, 116, 101, 110, 97, 110, 116>>
\* "-"
Dash == <<45>>
\* "."
Dot == <<46>>
\* ".svc.cluster.local"
ClusterSuffix == <<46, 115, 118, 99, 46, 99, 108, 117, 115, 116, 101, 114, 46, 108, 111, 99, 97, 108>>
\* ":19291"
RemoteWritePort == <<58, 49, 57, 50, 57, 49>>

receiveFinalizer == "monitoring.thanos.io/receive-finalizer"

\* Go's string order: byte-wise lexicographic, a proper prefix sorts first
RECURSIVE StrLessFrom(_, _, _)
StrLessFrom(s, t, i) ==
    IF i > Len(t) THEN FALSE
    ELSE IF i > Len(s) THEN TRUE
    ELSE IF s[i] # t[i] THEN s[i] < t[i]
    ELSE StrLessFrom(s, t, i + 1)

StrLess(s, t) == StrLessFrom(s, t, 1)

\* the elements of a finite set of strings as an ascending sequence: the
\* least element, then the others in order
RECURSIVE SortStrings(_)
SortStrings(S) ==
    IF S = {} THEN <<>>
    ELSE CHOOSE q \in { <<m>> \o SortStrings(S \ {m}) :
                          m \in { x \in S : \A y \in S \ {x} : StrLess(x, y) } } : TRUE

Range(f) == {f[i] : i \in DOMAIN f}

----------------------------------------------------------------------------
(* Platform objects *)

\* no object under a key (a read of it answers not-found)
NoObj == [absent |-> TRUE]

KindServiceAccount == "ServiceAccount"
KindService == "Service"
KindStatefulSet == "StatefulSet"
KindDeployment == "Deployment"
KindConfigMap == "ConfigMap"

\* the hashring config of a ConfigMap that lists no hashring: the JSON text `[]`
EmptyHashringConfig == <<>>

\* receive.IngesterNameFromParent: <subject-name>-<shard-name>
IngesterNameFromParent(parent, shard) == parent \o Dash \o shard

\* every kind the two flows build is namespace-scoped
IsNamespacedResource(obj) ==
    obj.kind \in {KindServiceAccount, KindService, KindStatefulSet, KindDeployment, KindConfigMap}

ObjKey(obj) == [kind |-> obj.kind, name |-> obj.name]

\* an object as a builder returns it: no namespace, no owner yet
NewObject(kind, name, data) ==
    [kind |-> kind, name |-> name, namespace |-> <<>>, owner |-> [kind |-> "none", name |-> <<>>], data |-> data]

----------------------------------------------------------------------------
(* Endpoint slices *)

Endpoint(hostname, ready, serving, terminating) ==
    [hostname |-> hostname, ready |-> ready, serving |-> serving, terminating |-> terminating]

\* the slices the environment may create for the Service of one shard
\*   1: three ready endpoints;  2: one ready endpoint that slice 1 also lists,
\*   one that is not ready, one that is terminating
SliceEndpoints(n) ==
    IF n = 1
    THEN << Endpoint(SomeHostname, TRUE, TRUE, FALSE),
            Endpoint(SomeHostnameB, TRUE, TRUE, FALSE),
            Endpoint(SomeHostnameC, TRUE, TRUE, FALSE) >>
    ELSE << Endpoint(SomeHostname, TRUE, TRUE, FALSE),
            Endpoint(SomeHostnameB, FALSE, FALSE, FALSE),
            Endpoint(SomeHostnameC, TRUE, TRUE, TRUE) >>

SliceIds == {1, 2}

\* an EndpointSlice as the platform creates it for a Service of the subject:
\* in the Service's namespace, labelled kubernetes.io/service-name = serviceName
\* and with the ingest component label, its one owner reference the Service
EndpointSlice(id, serviceName) ==
    [id |-> id, serviceName |-> serviceName, namespace |-> Namespace,
     owners |-> << [kind |-> KindService, name |-> serviceName] >>, component |-> TRUE,
     endpoints |-> SliceEndpoints(id)]

----------------------------------------------------------------------------
(* Subjects *)

\* one IngestorHashringSpec
\* Retention is a pointer: the sequence of the 0 or 1 value it points to
Hashring(name) ==
    IF name = <<98>>
    THEN [Name |-> name, Tenants |-> <<TestTenant>>, Replicas |-> 3,
          Retention |-> << <<50, 104>> >>, StorageSize |-> <<49, 48, 48, 77, 105>>]
    ELSE [Name |-> name, Tenants |-> <<>>, Replicas |-> 1,
          Retention |-> << <<50, 104>> >>, StorageSize |-> <<49, 48, 48, 77, 105>>]

\* the hashring lists users declare: admission keeps the names of a list
\* unique. Lists that differ only by a renaming of hashrings are not repeated
HashringLists ==
    { [i \in 1..n |-> Hashring(DeclaredNames[i])] : n \in 0..MaxHashrings }

ShardNames == { DeclaredNames[i] : i \in 1..MaxHashrings }

ReceiveRef == [kind |-> "ThanosReceive", name |-> ReceiveName]
QueryRef == [kind |-> "ThanosQuery", name |-> QueryName]

----------------------------------------------------------------------------
(* Object applier *)

\* a CreateOrUpdate that writes an existing object whether or not it differs
CreateOrUpdateAlwaysWrites(store, obj) ==
    LET key == ObjKey(obj)
        desired == [namespace |-> obj.namespace, owner |-> obj.owner, data |-> obj.data]
    IN  IF store[key] = NoObj
        THEN [store |-> [store EXCEPT ![key] = desired], op |-> "created"]
        ELSE [store |-> [store EXCEPT ![key] = desired], op |-> "updated"]

\* controllerutil.CreateOrUpdate with manifests.MutateFuncFor: create the object
\* when the platform holds none under its key; otherwise overwrite the fields
\* the operator manages and update only when that changed something
CreateOrUpdate(store, obj) ==
    LET key == ObjKey(obj)
        desired == [namespace |-> obj.namespace, owner |-> obj.owner, data |-> obj.data]
    IN  IF store[key] = NoObj
        THEN [store |-> [store EXCEPT ![key] = desired], op |-> "created"]
        ELSE IF store[key] = desired
        THEN [store |-> store, op |-> "unchanged"]
        ELSE [store |-> [store EXCEPT ![key] = desired], op |-> "updated"]

\* a pass whose apply loop never counts a failure as one
PassFailedNever(errCount) == FALSE

\* if errCount > 0 { return fmt.Errorf(...) }
PassFailed(errCount) == errCount > 0

\* the fetch of the subject: getErr is a failure other than not-found
Get(subject, getErr) ==
    IF getErr THEN "error" ELSE IF ~subject.exists THEN "notfound" ELSE "ok"

\* a Reconcile that returns every error of the fetch
GetErrorFailsAlways(fetch) == TRUE

\* whether a failed fetch fails the pass: not-found is ignored
GetErrorFails(fetch) == fetch # "notfound"

\* a Reconcile that counts a failed pass before it looks at the kind of error
FetchFailedDeltaUnconditional(fetch) == IF fetch # "ok" THEN 1 ELSE 0

\* r.reconciliationsFailedTotal.Inc() of a fetch that failed: not for not-found
FetchFailedDelta(fetch) == IF fetch = "error" THEN 1 ELSE 0

ApplyStart(store) ==
    [store |-> store, errCount |-> 0, attempted |-> <<>>, sent |-> <<>>, ops |-> <<>>,
     ownerFailed |-> <<>>]

\* an iteration that goes on to CreateOrUpdate after a failed
\* SetControllerReference
ApplyObjectLinkIgnored(st, obj, owner, namespace, fault) ==
    LET linked == [obj EXCEPT !.namespace = namespace, !.owner = owner]
        unlinked == [obj EXCEPT !.namespace = namespace]
        seen == [st EXCEPT !.attempted = Append(@, ObjKey(obj))]
    IN  IF fault = "apply"
        THEN [seen EXCEPT !.errCount = @ + 1]
        ELSE LET failed == IsNamespacedResource(obj) /\ fault = "owner"
                 target == IF failed THEN unlinked
                           ELSE IF IsNamespacedResource(obj) THEN linked ELSE obj
                 r == CreateOrUpdate(st.store, target)
             IN  [seen EXCEPT !.store = r.store,
                              !.errCount = IF failed THEN @ + 1 ELSE @,
                              !.ownerFailed = IF failed THEN Append(@, ObjKey(obj)) ELSE @,
                              !.sent = Append(@, target),
                              !.ops = Append(@, r.op)]

\* an iteration that calls the platform a second time when the first call
\* failed
ApplyObjectRetrying(st, obj, owner, namespace, fault) ==
    LET linked == [obj EXCEPT !.namespace = namespace, !.owner = owner]
        seen == [st EXCEPT !.attempted = Append(@, ObjKey(obj))]
        again == IF fault = "none" THEN seen
                 ELSE [seen EXCEPT !.attempted = Append(@, ObjKey(obj))]
        target == IF IsNamespacedResource(obj) THEN linked ELSE obj
        r == CreateOrUpdate(st.store, target)
    IN  [again EXCEPT !.store = r.store,
                      !.sent = Append(@, target),
                      !.ops = Append(@, r.op)]

\* one iteration of the loop over objs
ApplyObject(st, obj, owner, namespace, fault) ==
    LET linked == [obj EXCEPT !.namespace = namespace, !.owner = owner]
        seen == [st EXCEPT !.attempted = Append(@, ObjKey(obj))]
    IN  IF IsNamespacedResource(obj) /\ fault = "owner"
        THEN [seen EXCEPT !.errCount = @ + 1, !.ownerFailed = Append(@, ObjKey(obj))]
        ELSE IF fault = "apply"
        THEN [seen EXCEPT !.errCount = @ + 1]
        ELSE LET target == IF IsNamespacedResource(obj) THEN linked ELSE obj
                 r == CreateOrUpdate(st.store, target)
             IN  [seen EXCEPT !.store = r.store,
                              !.sent = Append(@, target),
                              !.ops = Append(@, r.op)]

\* a loop that gives up at the first object that fails
RECURSIVE ApplyObjectsStopAtFailure(_, _, _, _, _, _)
ApplyObjectsStopAtFailure(st, objs, i, owner, namespace, faults) ==
    IF i > Len(objs) \/ st.errCount > 0 THEN st
    ELSE ApplyObjectsStopAtFailure(ApplyObject(st, objs[i], owner, namespace, faults[i]),
                                   objs, i + 1, owner, namespace, faults)

\* for _, obj := range objs { ... continue ... }: the state after the
\* iteration for objs[i] is the state the later iterations start from
RECURSIVE ApplyObjects(_, _, _, _, _, _)
ApplyObjects(st, objs, i, owner, namespace, faults) ==
    IF i > Len(objs) THEN st
    ELSE CHOOSE done \in { ApplyObjects(next, objs, i + 1, owner, namespace, faults) :
                             next \in {ApplyObject(st, objs[i], owner, namespace, faults[i])} } :
            TRUE

\* which objects of a pass fail, and how: at most k of the n
RECURSIVE FaultsUpTo(_, _)
FaultsUpTo(n, k) ==
    IF k = 0 THEN { [i \in 1..n |-> "none"] }
    ELSE LET fewer == FaultsUpTo(n, k - 1)
         IN  fewer \cup { [f EXCEPT ![i] = kind] :
                            f \in fewer, i \in 1..n, kind \in {"owner", "apply"} }

FaultAssignments(n) == FaultsUpTo(n, MaxFailures)

----------------------------------------------------------------------------
(* Ingestion tier: builders *)

\* receive.BuildIngesters for one hashring: the objects named <subject>-<shard>
BuildIngester(name) ==
    << NewObject(KindServiceAccount, name, "ingester"),
       NewObject(KindService, name, "ingester"),
       NewObject(KindStatefulSet, name, "ingester") >>

\* the suffixes of a quantity: none, "Ki", "Mi", "Gi", "k", "M", "G"
QuantitySuffixes ==
    { <<>>, <<75, 105>>, <<77, 105>>, <<71, 105>>, <<107>>, <<77>>, <<71>> }

\* the digits a string starts with
RECURSIVE LeadingDigits(_, _)
LeadingDigits(str, i) ==
    IF i > Len(str) \/ str[i] \notin 48..57 THEN 0
    ELSE 1 + LeadingDigits(str, i + 1)

\* resource.ParseQuantity answers no error: an integer number and a suffix
ParsesAsQuantity(str) ==
    LET n == LeadingDigits(str, 1)
    IN  n > 0 /\ SubSeq(str, n + 1, Len(str)) \in QuantitySuffixes

\* buildHashrings panics: *hashring.Retention of a nil pointer, or
\* resource.MustParse of a StorageSize that is no quantity
buildHashringsPanics(rcv) ==
    \E i \in DOMAIN rcv.hashrings :
        \/ rcv.hashrings[i].Retention = <<>>
        \/ ~ParsesAsQuantity(rcv.hashrings[i].StorageSize)

\* buildHashrings: the ingester objects of every declared hashring, in order
RECURSIVE buildHashrings(_, _)
buildHashrings(rcv, i) ==
    IF i > Len(rcv.hashrings) THEN <<>>
    ELSE BuildIngester(IngesterNameFromParent(rcv.name, rcv.hashrings[i].Name))
            \o buildHashrings(rcv, i + 1)

\* <hostname>.<service>.<namespace>.svc.cluster.local:19291
EndpointAddress(hostname, serviceName, namespace) ==
    hostname \o Dot \o serviceName \o Dot \o namespace \o ClusterSuffix \o RemoteWritePort

\* the addresses of the endpoints of the listed slices that are ready and
\* serving and not terminating
ReadyAddresses(eps, serviceName, namespace) ==
    UNION { { EndpointAddress(s.endpoints[i].hostname, serviceName, namespace) :
                i \in { j \in DOMAIN s.endpoints :
                          /\ s.endpoints[j].ready
                          /\ s.endpoints[j].serving
                          /\ ~s.endpoints[j].terminating } } :
            s \in eps }

\* the entry of hashring `name` in a hashring config, as a set of 0 or 1 entry
EntriesNamed(config, name) == { e \in Range(config) : e.hashring = name }

\* the entry BuildHashrings computes for one hashring: its ready addresses,
\* sorted; with none ready, the entry the existing config holds for it, if any
HashringEntry(current, serviceName, namespace, meta) ==
    LET ready == ReadyAddresses(meta.AssociatedEndpointSlices, serviceName, namespace)
    IN  IF ready # {}
        THEN { [hashring |-> meta.OriginalName,
                tenants |-> meta.Tenants,
                tenant_matcher_type |-> meta.TenantMatcherType,
                endpoints |-> SortStrings(ready)] }
        ELSE EntriesNamed(current, meta.OriginalName)

\* entries as a sequence ordered by hashring name
RECURSIVE SortEntries(_)
SortEntries(S) ==
    IF S = {} THEN <<>>
    ELSE CHOOSE q \in { <<m>> \o SortEntries(S \ {m}) :
                          m \in { CHOOSE x \in S :
                                    \A y \in S \ {x} : ~StrLess(y.hashring, x.hashring) } } : TRUE

\* receive.BuildHashrings: the ConfigMap named after the subject
BuildHashrings(preExistingState, opts) ==
    LET current == IF preExistingState = NoObj THEN EmptyHashringConfig
                   ELSE preExistingState.data
        settings == opts.HashringSettings
        entries == UNION { HashringEntry(current, k, opts.Namespace, settings[k]) :
                             k \in DOMAIN settings }
    IN  IF DOMAIN settings = {}
        THEN [obj |-> NewObject(KindConfigMap, opts.Name, EmptyHashringConfig),
              err |-> "ErrHashringsEmpty"]
        ELSE [obj |-> NewObject(KindConfigMap, opts.Name, SortEntries(entries)),
              err |-> "none"]
----------------------------------------------------------------------------
(* Ingestion tier: ThanosReceiveReconciler *)

\* a loop over the hashrings that misses the last one
HashringIndicesButLast(rcv) == 1..(Len(rcv.hashrings) - 1)

\* for i, hashring := range receiver.Spec.Ingester.Hashrings
HashringIndices(rcv) == 1..Len(rcv.hashrings)

\* a count that misses one hashring
totalHashringsButOne(rcv) == Len(rcv.hashrings) - 1

\* totalHashrings := len(receiver.Spec.Ingester.Hashrings)
totalHashrings(rcv) == Len(rcv.hashrings)

\* labelValue := receive.IngesterNameFromParent(receiver.GetName(), hashring.Name)
LabelValue(rcv, i) == IngesterNameFromParent(rcv.name, rcv.hashrings[i].Name)

\* a listing that drops the service-name selector
ListEndpointSlicesUnselected(sl, labelValue, namespace) == sl

\* a listing that drops the namespace of the subject
ListEndpointSlicesAnyNamespace(sl, labelValue, namespace) ==
    { e \in sl : e.serviceName = labelValue }

\* r.Client.List with MatchingLabels{kubernetes.io/service-name: labelValue}
\* and InNamespace(receiver.GetNamespace())
ListEndpointSlices(sl, labelValue, namespace) ==
    { e \in sl : e.serviceName = labelValue /\ e.namespace = namespace }

\* settings keyed by the bare hashring name
SettingsKeyBareName(rcv, i) == rcv.hashrings[i].Name

\* the key of opts.HashringSettings[labelValue] = ...
SettingsKey(rcv, i) == LabelValue(rcv, i)

\* a priority that grows with the position in the list
PriorityByPosition(rcv, i) == i

\* Priority: totalHashrings - i, for the hashring at 1-based position i
Priority(rcv, i) == totalHashrings(rcv) - (i - 1)

\* opts.HashringSettings: one HashringMeta per key, a later hashring of the
\* list overwriting an earlier one under the same key
HashringSettings(rcv, sl) ==
    LET idx == HashringIndices(rcv)
        lastOf(k) == CHOOSE i \in idx :
                        /\ SettingsKey(rcv, i) = k
                        /\ \A j \in idx : SettingsKey(rcv, j) = k => j <= i
    IN  [ k \in { SettingsKey(rcv, i) : i \in idx } |->
            LET i == lastOf(k)
            IN  [ DesiredReplicasReplicas |-> rcv.hashrings[i].Replicas,
                  OriginalName |-> rcv.hashrings[i].Name,
                  Tenants |-> rcv.hashrings[i].Tenants,
                  TenantMatcherType |-> "exact",
                  AssociatedEndpointSlices |->
                      ListEndpointSlices(sl, LabelValue(rcv, i), rcv.namespace),
                  Priority |-> Priority(rcv, i) ] ]

\* a buildHashringConfig that forgets what it read
ReadConfigMapIgnored(rcv, store) == NoObj

\* the ConfigMap buildHashringConfig reads: a read that finds none goes on
\* with an empty ConfigMap
ReadConfigMap(rcv, store) == store[[kind |-> KindConfigMap, name |-> rcv.name]]

\* buildHashringConfig. cmErr: the ConfigMap read fails with an error other
\* than not-found; listErr: an endpoint slice listing fails
buildHashringConfig(rcv, store, sl, cmErr, listErr) ==
    LET cm == ReadConfigMap(rcv, store)
        opts == [ Name |-> rcv.name,
                  Namespace |-> rcv.namespace,
                  HashringSettings |-> HashringSettings(rcv, sl) ]
        built == BuildHashrings(cm, opts)
        failed == [obj |-> NoObj, err |-> "error", hashringsConfigured |-> [set |-> FALSE, value |-> 0],
                   cmRead |-> NoObj]
    IN  IF cmErr THEN failed
        ELSE IF listErr /\ Len(rcv.hashrings) > 0 THEN [failed EXCEPT !.cmRead = cm]
        ELSE [obj |-> built.obj, err |-> built.err,
              hashringsConfigured |-> [set |-> TRUE, value |-> totalHashrings(rcv)],
              cmRead |-> cm]

\* a syncResources that returns every error of buildHashringConfig
SynthesisFatalAlways(err) == err # "none"

\* if err != nil { if !errors.Is(err, receive.ErrHashringsEmpty) { return ... } }
SynthesisFatal(err) == err \notin {"none", "ErrHashringsEmpty"}

\* a syncResources that applies the ingesters it built before it looks at
\* the error of buildHashringConfig
ReceiveSyncResourcesApplyingFirst(rcv, store, conf, faults) ==
    LET fatal == SynthesisFatal(conf.err)
        objs == IF fatal THEN buildHashrings(rcv, 1)
                ELSE buildHashrings(rcv, 1) \o <<conf.obj>>
        st == ApplyObjects(ApplyStart(store), objs, 1, ReceiveRef, rcv.namespace, faults)
    IN  [ err |-> fatal \/ PassFailed(st.errCount), store |-> st.store, built |-> objs,
          attempted |-> st.attempted, sent |-> st.sent, ops |-> st.ops,
          errCount |-> st.errCount, ownerFailed |-> st.ownerFailed,
          clientErrors |-> IF PassFailed(st.errCount) THEN st.errCount ELSE 0,
          conf |-> conf ]

\* syncResources, as the fields of the pass record it decides.
\* conf: what its call of buildHashringConfig returned
ReceiveSyncResources(rcv, store, conf, faults) ==
    IF SynthesisFatal(conf.err)
    THEN [ err |-> TRUE, store |-> store, built |-> buildHashrings(rcv, 1),
           attempted |-> <<>>, sent |-> <<>>, ops |-> <<>>, errCount |-> 0,
           ownerFailed |-> <<>>, clientErrors |-> 0, conf |-> conf ]
    ELSE \* st: the state of the loop over objs once it has ended
         CHOOSE result \in
           { [ err |-> PassFailed(st.errCount), store |-> st.store,
               built |-> buildHashrings(rcv, 1) \o <<conf.obj>>,
               attempted |-> st.attempted, sent |-> st.sent, ops |-> st.ops,
               errCount |-> st.errCount, ownerFailed |-> st.ownerFailed,
               clientErrors |-> IF PassFailed(st.errCount) THEN st.errCount ELSE 0,
               conf |-> conf ] :
             st \in { ApplyObjects(ApplyStart(store), objs, 1, ReceiveRef,
                                   rcv.namespace, faults) :
                        objs \in {buildHashrings(rcv, 1) \o <<conf.obj>>} } } : TRUE

NoConf ==
    [obj |-> NoObj, err |-> "n/a", hashringsConfigured |-> [set |-> FALSE, value |-> 0],
     cmRead |-> NoObj]

\* what one pass did: its result, the objects it built, attempted and sent to
\* the platform, the events it recorded and what it added to its metrics
NoPass ==
    [ tier |-> "none", fetch |-> "none", deleting |-> FALSE,
      err |-> FALSE, requeue |-> FALSE, panicked |-> FALSE,
      built |-> <<>>, attempted |-> <<>>, sent |-> <<>>, ops |-> <<>>, errCount |-> 0,
      ownerFailed |-> <<>>, endpoints |-> <<>>, listFailed |-> FALSE,
      events |-> <<>>, conf |-> NoConf,
      reconciliationsTotal |-> 0, reconciliationsFailedTotal |-> 0,
      clientErrorsTotal |-> 0 ]

ContainsFinalizer(subject, finalizer) == finalizer \in subject.finalizers

\* a handleDeletionTimestamp that does not look for the finalizer
handleDeletionTimestampUnconditional(rcv) ==
    << [object |-> ReceiveRef, type |-> "Warning", reason |-> "Deleting"] >>

\* handleDeletionTimestamp: the events it records
handleDeletionTimestamp(rcv) ==
    IF ContainsFinalizer(rcv, receiveFinalizer)
    THEN << [object |-> ReceiveRef, type |-> "Warning", reason |-> "Deleting"] >>
    ELSE <<>>

\* ThanosReceiveReconciler.Reconcile. getErr: the fetch of the subject fails
\* with an error other than not-found
ReceiveReconcileResult(rcv, store, conf, getErr, faults) ==
    LET fetch == Get(rcv, getErr)
        started == [NoPass EXCEPT !.tier = "receive", !.fetch = fetch,
                                  !.reconciliationsTotal = 1]
    IN  IF fetch # "ok"
        THEN [store |-> store,
              pass |-> [started EXCEPT !.err = GetErrorFails(fetch),
                                       !.clientErrorsTotal = 1,
                                       !.reconciliationsFailedTotal =
                                            FetchFailedDelta(fetch)]]
        ELSE IF rcv.deleting
        THEN [store |-> store,
              pass |-> [started EXCEPT !.deleting = TRUE,
                                       !.events = handleDeletionTimestamp(rcv)]]
        ELSE IF buildHashringsPanics(rcv)
        THEN [store |-> store, pass |-> [started EXCEPT !.panicked = TRUE]]
        ELSE \* sync: what r.syncResources(ctx, *receiver) did
             CHOOSE result \in
               { [store |-> sync.store,
                  pass |-> [started EXCEPT !.err = sync.err,
                                           !.built = sync.built,
                                           !.attempted = sync.attempted,
                                           !.sent = sync.sent, !.ops = sync.ops,
                                           !.errCount = sync.errCount,
                                           !.ownerFailed = sync.ownerFailed,
                                           !.conf = sync.conf,
                                           !.clientErrorsTotal = sync.clientErrors,
                                           !.reconciliationsFailedTotal =
                                                IF sync.err THEN 1 ELSE 0]] :
                 sync \in {ReceiveSyncResources(rcv, store, conf, faults)} } : TRUE

----------------------------------------------------------------------------
(* Query tier: ThanosQueryReconciler *)

\* label keys: manifests.DefaultStoreAPILabel and the strictness labels of
\* manifestquery
DefaultStoreAPILabel == "operator.thanos.io/store-api"
StrictLabel == "operator.thanos.io/endpoint-strict"
GroupStrictLabel == "operator.thanos.io/endpoint-group-strict"
GroupLabel == "operator.thanos.io/endpoint-group"
RegularLabel == "operator.thanos.io/endpoint"

HasLabel(svc, key) == key \in DOMAIN svc.labels

\* client.MatchingLabels: every selector label is on the object with that value
MatchesLabels(svc, matchLabels) ==
    \A k \in DOMAIN matchLabels : HasLabel(svc, k) /\ svc.labels[k] = matchLabels[k]

\* a listing that forgets client.InNamespace
ListServicesAnyNamespace(q, svcs) == { svc \in svcs : MatchesLabels(svc, q.matchLabels) }

\* r.List with MatchingLabels(query.Spec.StoreLabelSelector.MatchLabels) and
\* InNamespace(query.Namespace)
ListServices(q, svcs) ==
    { svc \in svcs : MatchesLabels(svc, q.matchLabels) /\ svc.namespace = q.namespace }

\* a classification that looks for the group label first
EndpointTypeGroupFirst(svc) ==
    IF HasLabel(svc, GroupLabel) THEN GroupLabel
    ELSE IF HasLabel(svc, GroupStrictLabel) THEN GroupStrictLabel
    ELSE IF HasLabel(svc, StrictLabel) THEN StrictLabel
    ELSE RegularLabel

\* the strictness class of one service, by precedence
EndpointType(svc) ==
    IF HasLabel(svc, StrictLabel) THEN StrictLabel
    ELSE IF HasLabel(svc, GroupStrictLabel) THEN GroupStrictLabel
    ELSE IF HasLabel(svc, GroupLabel) THEN GroupLabel
    ELSE RegularLabel

\* the Endpoint built for one service: the port found under the name "grpc" is
\* written to endpoints[i] and then endpoints[i] is assigned a literal that
\* names no Port
StoreAPIEndpoint(svc) ==
    [ServiceName |-> svc.name, Namespace |-> svc.namespace, Type |-> EndpointType(svc),
     Port |-> 0]

\* getStoreAPIServiceEndpoints panics: query.Spec.StoreLabelSelector is a nil
\* pointer
getStoreAPIServiceEndpointsPanics(q) == ~q.hasSelector

\* an observer that returns the endpoint of the first listed service only
getStoreAPIServiceEndpointsFirstOnly(q, items, listErr) ==
    IF listErr \/ items = <<>> THEN <<>>
    ELSE << StoreAPIEndpoint(items[1]) >>

\* getStoreAPIServiceEndpoints. items: the matching services in the order the
\* listing returns them; listErr: the listing fails
getStoreAPIServiceEndpoints(q, items, listErr) ==
    IF listErr THEN <<>>
    ELSE [i \in 1..Len(items) |-> StoreAPIEndpoint(items[i])]

\* "--endpoint"
EndpointFlag ==
    <<45, 45, 101, 110, 100, 112, 111, 105, 110, 116>>
\* "-group"
GroupSuffix ==
    <<45, 103, 114, 111, 117, 112>>
\* "-strict"
StrictSuffix ==
    <<45, 115, 116, 114, 105, 99, 116>>
\* "=dnssrv+_grpc._tcp."
DNSSRVPrefix ==
    <<61, 100, 110, 115, 115, 114, 118, 43, 95, 103, 114, 112, 99, 46, 95,
      116, 99, 112, 46>>

\* the flag of one discovery argument: --endpoint[-group][-strict]
EndpointFlagFor(type) ==
    IF type = StrictLabel THEN EndpointFlag \o StrictSuffix
    ELSE IF type = GroupStrictLabel THEN EndpointFlag \o GroupSuffix \o StrictSuffix
    ELSE IF type = GroupLabel THEN EndpointFlag \o GroupSuffix
    ELSE EndpointFlag

\* --endpoint[-group][-strict]=dnssrv+_grpc._tcp.<service>.<namespace>.svc.cluster.local
EndpointArg(ep) ==
    EndpointFlagFor(ep.Type) \o DNSSRVPrefix \o ep.ServiceName \o Dot \o ep.Namespace
        \o ClusterSuffix

\* manifestquery.BuildQuerier: the objects named after the subject; the
\* Deployment carries one discovery argument per endpoint, in order
BuildQuerier(opts) ==
    << NewObject(KindServiceAccount, opts.Name, "querier"),
       NewObject(KindService, opts.Name, "querier"),
       NewObject(KindDeployment, opts.Name,
                 [i \in 1..Len(opts.Endpoints) |-> EndpointArg(opts.Endpoints[i])]) >>

buildQuerier(q, items, listErr) ==
    BuildQuerier([Name |-> q.name, Namespace |-> q.namespace,
                  Endpoints |-> getStoreAPIServiceEndpoints(q, items, listErr)])

\* a syncResources that gives up when the listing of services fails
QuerySyncResourcesListErrFatal(q, store, items, listErr, faults) ==
    LET objs == buildQuerier(q, items, listErr)
        st == ApplyObjects(ApplyStart(store), objs, 1, QueryRef, q.namespace, faults)
    IN  IF listErr
        THEN [ err |-> TRUE, store |-> store, built |-> <<>>,
               attempted |-> <<>>, sent |-> <<>>, ops |-> <<>>,
               errCount |-> 0, ownerFailed |-> <<>>, endpoints |-> <<>> ]
        ELSE [ err |-> PassFailed(st.errCount), store |-> st.store, built |-> objs,
               attempted |-> st.attempted, sent |-> st.sent, ops |-> st.ops,
               errCount |-> st.errCount, ownerFailed |-> st.ownerFailed,
               endpoints |-> getStoreAPIServiceEndpoints(q, items, listErr) ]

\* syncResources of the query tier
QuerySyncResources(q, store, items, listErr, faults) ==
    LET objs == buildQuerier(q, items, listErr)
        st == ApplyObjects(ApplyStart(store), objs, 1, QueryRef, q.namespace, faults)
    IN  [ err |-> PassFailed(st.errCount), store |-> st.store, built |-> objs,
          attempted |-> st.attempted, sent |-> st.sent, ops |-> st.ops,
          errCount |-> st.errCount, ownerFailed |-> st.ownerFailed,
          endpoints |-> getStoreAPIServiceEndpoints(q, items, listErr) ]

\* ThanosQueryReconciler.Reconcile: it never looks at the deletion timestamp
QueryReconcileResult(q, store, items, getErr, listErr, faults) ==
    LET fetch == Get(q, getErr)
        started == [NoPass EXCEPT !.tier = "query", !.fetch = fetch,
                                  !.listFailed = listErr]
        sync == QuerySyncResources(q, store, items, listErr, faults)
    IN  IF fetch # "ok"
        THEN [store |-> store, pass |-> [started EXCEPT !.err = GetErrorFails(fetch)]]
        ELSE IF getStoreAPIServiceEndpointsPanics(q)
        THEN [store |-> store, pass |-> [started EXCEPT !.panicked = TRUE]]
        ELSE [store |-> sync.store,
              pass |-> [started EXCEPT !.err = sync.err,
                                       !.built = sync.built,
                                       !.attempted = sync.attempted,
                                       !.sent = sync.sent, !.ops = sync.ops,
                                       !.errCount = sync.errCount,
                                       !.ownerFailed = sync.ownerFailed,
                                       !.endpoints = sync.endpoints]]

----------------------------------------------------------------------------
(* State *)

ObjectKeys ==
    { [kind |-> k, name |-> n] :
        k \in {KindServiceAccount, KindService, KindStatefulSet},
        n \in { IngesterNameFromParent(ReceiveName, s) : s \in ShardNames } }
    \cup { [kind |-> KindConfigMap, name |-> ReceiveName] }
    \cup { [kind |-> k, name |-> QueryName] :
             k \in {KindServiceAccount, KindService, KindDeployment} }
    \cup { [kind |-> KindService, name |-> <<115, 118, 99>>] }

NoReceive ==
    [exists |-> FALSE, name |-> ReceiveName, namespace |-> Namespace,
     deleting |-> FALSE, finalizers |-> {}, hashrings |-> <<>>]

\* hasSelector: Spec.StoreLabelSelector is not nil; matchLabels: its MatchLabels
NoQuery ==
    [exists |-> FALSE, name |-> QueryName, namespace |-> Namespace, deleting |-> FALSE,
     hasSelector |-> TRUE, matchLabels |-> <<>>]

\* the services users run beside the query tier.  "sa": a store without a
\* strictness label; "sb": a strict store that names no grpc port; "sc": not a store
StoreServices ==
    { [name |-> <<115, 97>>, namespace |-> Namespace,
       labels |-> [k \in {DefaultStoreAPILabel} |-> "true"],
       ports |-> << [Name |-> "grpc", Port |-> 10901] >>],
      [name |-> <<115, 98>>, namespace |-> Namespace,
       labels |-> [k \in {DefaultStoreAPILabel, StrictLabel} |-> "true"],
       ports |-> <<>>],
      [name |-> <<115, 99>>, namespace |-> Namespace,
       labels |-> [k \in {"app"} |-> "nginx"],
       ports |-> << [Name |-> "grpc", Port |-> 10901] >>] }

\* the orders in which a listing may return a set of services
Listings(S) ==
    { f \in [1..Cardinality(S) -> S] : \A i, j \in DOMAIN f : i # j => f[i] # f[j] }

\* the counters of a reconciler just constructed
NoMetrics ==
    [reconciliationsTotal |-> 0, reconciliationsFailedTotal |-> 0,
     endpointWatchesReconciliationsTotal |-> 0]

\* no watch event handled in the step that led here
NoMapping == [source |-> "none", obj |-> NoObj, requests |-> <<>>, failed |-> FALSE]

\* no pass started, none returned an error
NoPasses == [started |-> 0, failed |-> 0]

Init ==
    /\ receiver = NoReceive
    /\ query = NoQuery
    /\ slices = {}
    /\ services = {}
    /\ objects = [k \in ObjectKeys |-> NoObj]
    /\ last = NoPass
    /\ queue = {}
    /\ inflight = {}
    /\ metrics = NoMetrics
    /\ passes = NoPasses
    /\ queriers = {}
    /\ queryQueue = {}
    /\ mapped = NoMapping

\* the keys of the objects an owner controls
Owned(store, owner) == { k \in DOMAIN store : store[k] # NoObj /\ store[k].owner = owner }

\* the store once the objects a removed owner controlled are collected
GarbageCollect(store, owner) ==
    [k \in DOMAIN store |->
        IF store[k] # NoObj /\ store[k].owner = owner THEN NoObj ELSE store[k]]

----------------------------------------------------------------------------
(* Environment: users and the platform.                                    *)
(* The two controllers share no state and, for the subjects "tr" and "tq" *)
(* followed here, write disjoint object keys, so one subject is followed   *)
(* at a time: their interleavings add no behaviour of either.              *)

CreateReceive ==
    /\ ~receiver.exists /\ ~query.exists
    /\ Owned(objects, QueryRef) = {} /\ services = {}
    /\ \E hr \in HashringLists :
         receiver' = [NoReceive EXCEPT !.exists = TRUE, !.hashrings = hr]
    /\ last' = NoPass
    /\ UNCHANGED <<query, slices, services, objects>>
    /\ UNCHANGED controllerVars

UpdateReceive ==
    /\ receiver.exists /\ ~receiver.deleting
    /\ \E hr \in HashringLists \ {receiver.hashrings} :
         receiver' = [receiver EXCEPT !.hashrings = hr]
    /\ last' = NoPass
    /\ UNCHANGED <<query, slices, services, objects>>
    /\ UNCHANGED controllerVars

\* a delete request sets the deletion timestamp; the subject stays while it
\* carries a finalizer, which may or may not be the receive finalizer (the
\* operator adds none itself)
DeleteReceive ==
    /\ receiver.exists /\ ~receiver.deleting
    /\ \E fin \in {{}, {receiveFinalizer}} :
         receiver' = [receiver EXCEPT !.deleting = TRUE, !.finalizers = fin]
    /\ last' = NoPass
    /\ UNCHANGED <<query, slices, services, objects>>
    /\ UNCHANGED controllerVars

\* the subject goes once its finalizers are cleared
RemoveReceive ==
    /\ receiver.exists /\ receiver.deleting
    /\ receiver' = NoReceive
    /\ last' = NoPass
    /\ UNCHANGED <<query, slices, services, objects>>
    /\ UNCHANGED controllerVars

\* the garbage collector removes what the removed subject owned, and with the
\* Services their endpoint slices
CollectReceive ==
    /\ ~receiver.exists
    /\ Owned(objects, ReceiveRef) # {} \/ slices # {}
    /\ objects' = GarbageCollect(objects, ReceiveRef)
    /\ slices' = {}
    /\ last' = NoPass
    /\ UNCHANGED <<receiver, query, services>>
    /\ UNCHANGED controllerVars

\* an endpoint slice appears for the Service of a hashring
CreateEndpointSlice ==
    /\ \E id \in SliceIds, s \in ShardNames :
         LET svc == IngesterNameFromParent(ReceiveName, s)
             e == EndpointSlice(id, svc)
         IN  /\ objects[[kind |-> KindService, name |-> svc]] # NoObj
             /\ e \notin slices
             /\ slices' = slices \cup {e}
    /\ last' = NoPass
    /\ UNCHANGED <<receiver, query, services, objects>>
    /\ UNCHANGED controllerVars

DeleteEndpointSlice ==
    /\ \E e \in slices : slices' = slices \ {e}
    /\ last' = NoPass
    /\ UNCHANGED <<receiver, query, services, objects>>
    /\ UNCHANGED controllerVars

CreateQuery ==
    /\ ~query.exists /\ ~receiver.exists
    /\ Owned(objects, ReceiveRef) = {} /\ slices = {}
    /\ query' = [NoQuery EXCEPT !.exists = TRUE,
                                !.matchLabels = [k \in {DefaultStoreAPILabel} |-> "true"]]
    /\ last' = NoPass
    /\ UNCHANGED <<receiver, slices, services, objects>>
    /\ UNCHANGED controllerVars

DeleteQuery ==
    /\ query.exists /\ ~query.deleting
    /\ query' = [query EXCEPT !.deleting = TRUE]
    /\ last' = NoPass
    /\ UNCHANGED <<receiver, slices, services, objects>>
    /\ UNCHANGED controllerVars

RemoveQuery ==
    /\ query.exists /\ query.deleting
    /\ query' = NoQuery
    /\ last' = NoPass
    /\ UNCHANGED <<receiver, slices, services, objects>>
    /\ UNCHANGED controllerVars

CollectQuery ==
    /\ ~query.exists
    /\ Owned(objects, QueryRef) # {} \/ services # {}
    /\ objects' = GarbageCollect(objects, QueryRef)
    /\ services' = {}
    /\ last' = NoPass
    /\ UNCHANGED <<receiver, query, slices>>
    /\ UNCHANGED controllerVars

CreateService ==
    /\ query.exists
    /\ \E svc \in StoreServices \ services : services' = services \cup {svc}
    /\ last' = NoPass
    /\ UNCHANGED <<receiver, query, slices, objects>>
    /\ UNCHANGED controllerVars

DeleteService ==
    /\ \E svc \in services : services' = services \ {svc}
    /\ last' = NoPass
    /\ UNCHANGED <<receiver, query, slices, objects>>
    /\ UNCHANGED controllerVars

----------------------------------------------------------------------------
(* Passes.  A pass may run for a key at any time: the work queue is fed by  *)
(* watches, resyncs and retries.                                           *)

ReceiveReconcile ==
    /\ ~query.exists /\ Owned(objects, QueryRef) = {} /\ services = {}
    /\ \E getErr \in BOOLEAN :
       \E cmErr \in IF getErr \/ ~receiver.exists \/ receiver.deleting
                    THEN {FALSE} ELSE BOOLEAN :
       \E listErr \in IF cmErr \/ getErr \/ ~receiver.exists \/ receiver.deleting
                         \/ receiver.hashrings = <<>>
                      THEN {FALSE} ELSE BOOLEAN :
       \E conf \in {buildHashringConfig(receiver, objects, slices, cmErr, listErr)} :
       \E faults \in IF cmErr \/ listErr \/ getErr \/ ~receiver.exists \/ receiver.deleting
                     THEN {[i \in 1..(3 * Len(receiver.hashrings) + 1) |-> "none"]}
                     ELSE FaultAssignments(3 * Len(receiver.hashrings) + 1) :
       \E r \in {ReceiveReconcileResult(receiver, objects, conf, getErr, faults)} :
         /\ objects' = r.store
         /\ last' = r.pass
    /\ UNCHANGED <<receiver, query, slices, services>>
    /\ UNCHANGED controllerVars

QueryReconcile ==
    /\ ~receiver.exists /\ Owned(objects, ReceiveRef) = {} /\ slices = {}
    /\ \E getErr \in BOOLEAN :
       \E listErr \in IF getErr \/ ~query.exists THEN {FALSE} ELSE BOOLEAN :
       \E items \in IF getErr \/ listErr \/ ~query.exists THEN {<<>>}
                    ELSE Listings(ListServices(query, services)) :
       \E faults \in IF getErr \/ ~query.exists THEN {[i \in 1..3 |-> "none"]}
                     ELSE FaultAssignments(3) :
       \E r \in {QueryReconcileResult(query, objects, items, getErr, listErr, faults)} :
         /\ objects' = r.store
         /\ last' = r.pass
    /\ UNCHANGED <<receiver, query, slices, services>>
    /\ UNCHANGED controllerVars

Next ==
    \/ CreateReceive
    \/ UpdateReceive
    \/ DeleteReceive
    \/ RemoveReceive
    \/ CollectReceive
    \/ CreateEndpointSlice
    \/ DeleteEndpointSlice
    \/ ReceiveReconcile
    \/ CreateQuery
    \/ DeleteQuery
    \/ RemoveQuery
    \/ CollectQuery
    \/ CreateService
    \/ DeleteService
    \/ QueryReconcile

Spec == Init /\ [][Next]_vars

----------------------------------------------------------------------------
(* The query tier over the services users may label.  A ThanosQuery exists *)
(* from the start, beside any set of the services below, no two of one     *)
(* name.                                                                   *)

\* "os": a namespace other than the subject's
OtherNamespace == <<111, 115>>

StrictnessLabels == {StrictLabel, GroupStrictLabel, GroupLabel, RegularLabel}

\* the ports a Service may declare: none, grpc alone, grpc after another port
PortLists ==
    { <<>>,
      << [Name |-> "grpc", Port |-> 10901] >>,
      << [Name |-> "http", Port |-> 9090], [Name |-> "grpc", Port |-> 10901] >> }

\* "sa": a store with any strictness labels; "sb": a store with any ports; "sc": not a store; "sd": a store in another namespace
LabelledServices(name) ==
    IF name = <<115, 97>>
    THEN { [name |-> name, namespace |-> Namespace,
            labels |-> [k \in {DefaultStoreAPILabel} \cup L |-> "true"],
            ports |-> << [Name |-> "grpc", Port |-> 10901] >>] :
             L \in SUBSET StrictnessLabels }
    ELSE IF name = <<115, 98>>
    THEN { [name |-> name, namespace |-> Namespace,
            labels |-> [k \in {DefaultStoreAPILabel} \cup L |-> "true"],
            ports |-> ports] :
             L \in {{}}, ports \in PortLists }
    ELSE IF name = <<115, 99>>
    THEN { [name |-> name, namespace |-> Namespace,
            labels |-> [k \in {"app"} |-> "nginx"],
            ports |-> << [Name |-> "grpc", Port |-> 10901] >>] }
    ELSE { [name |-> name, namespace |-> OtherNamespace,
            labels |-> [k \in {DefaultStoreAPILabel, GroupLabel} |-> "true"],
            ports |-> << [Name |-> "grpc", Port |-> 10901] >>] }

ServiceNames == { <<115, 97>>, <<115, 98>>, <<115, 99>>, <<115, 100>> }

\* the sets of at most MaxServices services with no two of one name
ServiceSets ==
    { S \in SUBSET (UNION { LabelledServices(n) : n \in ServiceNames }) :
        /\ Cardinality(S) <= MaxServices
        /\ \A x, y \in S : x.name = y.name => x = y }

InitQuery ==
    /\ receiver = NoReceive
    /\ query = [NoQuery EXCEPT !.exists = TRUE,
                               !.matchLabels = [k \in {DefaultStoreAPILabel} |-> "true"]]
    /\ slices = {}
    /\ services \in ServiceSets
    /\ objects = [k \in ObjectKeys |-> NoObj]
    /\ last = NoPass
    /\ queue = {}
    /\ inflight = {}
    /\ metrics = NoMetrics
    /\ passes = NoPasses
    /\ queriers = {}
    /\ queryQueue = {}
    /\ mapped = NoMapping

NextQuery ==
    \/ QueryReconcile
    \/ DeleteQuery

SpecQuery == InitQuery /\ [][NextQuery]_vars

----------------------------------------------------------------------------
(* Properties.  `last` is the record of the pass that led to the current    *)
(* state (NoPass after a step of the environment), so in a state with      *)
(* last.tier # "none" the subjects, slices and services are those the pass *)
(* observed.                                                               *)

\* the subject of the pass that just ran
LastSubject == IF last.tier = "receive" THEN receiver ELSE query

\* the pass just run found no subject under its key
PassOnAbsent ==
    /\ last.tier \in {"receive", "query"}
    /\ ~LastSubject.exists
    /\ last.fetch # "error"

\* the pass just run builds nothing, sends nothing and records no event
PassDidNothing ==
    /\ last.built = <<>>
    /\ last.attempted = <<>>
    /\ last.sent = <<>>

ConfigMapKey == [kind |-> KindConfigMap, name |-> ReceiveName]

KeysOf(objs) == [i \in 1..Len(objs) |-> ObjKey(objs[i])]

\* C1: in both tiers a pass whose subject does not exist returns success (no
\* error, no requeue), builds and applies no object (the platform objects are
\* left as they were) and records no event
C1_NotFoundIsNoOp ==
    [][ PassOnAbsent' =>
          /\ last'.fetch = "notfound"
          /\ ~last'.err /\ ~last'.requeue
          /\ PassDidNothing'
          /\ last'.events = <<>>
          /\ objects' = objects ]_vars

\* a pass for a removed subject whose objects are not yet collected
C1_Witness ==
    /\ PassOnAbsent /\ last.tier = "receive" /\ last.fetch = "notfound" /\ ~last.err
    /\ objects[ConfigMapKey] # NoObj

\* the pass just run is an ingestion-tier pass over a subject that carries a
\* deletion timestamp
ReceivePassOnDeleting ==
    /\ last.tier = "receive"
    /\ last.fetch = "ok"
    /\ receiver.exists /\ receiver.deleting

\* C2: an ingestion-tier pass over a subject marked for deletion returns
\* success, builds and applies no object, deletes none, and records exactly
\* one deletion notice when the receive finalizer is present, none otherwise
C2_DeletionStopsAfterFinalizerPath ==
    [][ ReceivePassOnDeleting' =>
          /\ ~last'.err /\ ~last'.requeue
          /\ PassDidNothing'
          /\ objects' = objects
          /\ Len(last'.events) = IF receiveFinalizer \in receiver'.finalizers THEN 1 ELSE 0
          /\ \A i \in DOMAIN last'.events : last'.events[i].reason = "Deleting" ]_vars

C2_Witness ==
    /\ ReceivePassOnDeleting
    /\ receiveFinalizer \in receiver.finalizers
    /\ Len(last.events) = 1
    /\ \E k \in DOMAIN objects : objects[k] # NoObj

\* the pass just run is a query-tier pass over a subject that carries a
\* deletion timestamp
QueryPassOnDeleting ==
    /\ last.tier = "query"
    /\ last.fetch = "ok"
    /\ query.exists /\ query.deleting

\* C3 (as claimed): a query-tier pass over a subject marked for deletion
\* builds and applies no object
C3_QueryDeletionStops ==
    QueryPassOnDeleting => PassDidNothing

\* the pass just run went through the apply loop of syncResources
PassApplied ==
    /\ last.tier \in {"receive", "query"}
    /\ last.fetch = "ok"
    /\ last.tier = "receive" => ~receiver.deleting /\ last.conf.err # "error"

\* C4: in a pass that applies its objects, every object built is attempted
\* exactly once and in list order, whichever of them fail
C4_EveryObjectAttempted ==
    PassApplied => last.attempted = KeysOf(last.built)

\* an object that is not the last one failed and the later ones were attempted
C4_Witness ==
    /\ PassApplied
    /\ last.errCount > 0
    /\ Len(last.sent) > 0
    /\ ObjKey(last.sent[Len(last.sent)]) = last.attempted[Len(last.attempted)]
    /\ last.attempted = KeysOf(last.built)

\* the pass just run is over a subject that exists and is not being deleted
PassOnActive ==
    /\ last.tier \in {"receive", "query"}
    /\ LastSubject.exists /\ ~LastSubject.deleting

\* C5 (as claimed): a pass over a subject that exists and is not being
\* deleted is reported failed if and only if at least one object failed
C5_FailedIffObjectFailed ==
    PassOnActive => (last.err <=> last.errCount > 0)

\* C5 (amended): such a pass is reported failed if and only if the fetch of
\* the subject failed, or (ingestion tier) the hashring configuration could
\* not be built for a reason other than ErrHashringsEmpty, or at least one
\* object failed
C5_FailedIffSomethingFailed ==
    PassOnActive =>
        (last.err <=> \/ last.fetch = "error"
                      \/ last.tier = "receive" /\ last.conf.err = "error"
                      \/ last.errCount > 0)

C5_Witness ==
    /\ PassOnActive /\ last.fetch = "ok" /\ last.err /\ last.errCount = 1
    /\ Len(last.sent) = Len(last.built) - 1

ReceivePassSynthesized ==
    /\ last.tier = "receive" /\ PassOnActive /\ last.fetch = "ok"
    /\ last.conf.err \in {"none", "ErrHashringsEmpty"}

\* the routing table that pass synthesized
Synthesized == last.conf.obj.data

\* the names the subject declares
DeclaredShards == { receiver.hashrings[i].Name : i \in DOMAIN receiver.hashrings }

\* some endpoint of a slice labelled <subject>-<shard> is ready, serving and
\* not terminating
ObservedReady(shard) ==
    \E e \in slices :
        /\ e.serviceName = ReceiveName \o Dash \o shard
        /\ \E i \in DOMAIN e.endpoints :
             e.endpoints[i].ready /\ e.endpoints[i].serving /\ ~e.endpoints[i].terminating

\* the entries the ConfigMap read by the pass held for a shard
PreviousEntries(shard) ==
    IF last.conf.cmRead = NoObj THEN {}
    ELSE { e \in Range(last.conf.cmRead.data) : e.hashring = shard }

EntryIndices(table, shard) == { i \in DOMAIN table : table[i].hashring = shard }

OrderedByName(table) ==
    \A i, j \in DOMAIN table : i < j => StrLess(table[i].hashring, table[j].hashring)

\* C7 (as claimed): the synthesized table holds exactly one entry per declared
\* hashring, ordered by hashring name
C7_OneEntryPerShard ==
    ReceivePassSynthesized =>
        /\ \A s \in DeclaredShards : Cardinality(EntryIndices(Synthesized, s)) = 1
        /\ Len(Synthesized) = Len(receiver.hashrings)
        /\ OrderedByName(Synthesized)

\* C7 (amended): the synthesized table holds exactly one entry for each declared
\* hashring that has a ready endpoint or an entry in the ConfigMap the pass
\* read, none for any other hashring, and is ordered by hashring name
C7_OneEntryPerPopulatedShard ==
    ReceivePassSynthesized =>
        /\ \A s \in DeclaredShards :
             Cardinality(EntryIndices(Synthesized, s)) =
                IF ObservedReady(s) \/ PreviousEntries(s) # {} THEN 1 ELSE 0
        /\ \A i \in DOMAIN Synthesized : Synthesized[i].hashring \in DeclaredShards
        /\ OrderedByName(Synthesized)

\* two hashrings declared in the order b, a are listed in the order a, b
C7_Witness ==
    /\ ReceivePassSynthesized
    /\ Len(receiver.hashrings) = 2
    /\ Len(Synthesized) = 2
    /\ StrLess(receiver.hashrings[2].Name, receiver.hashrings[1].Name)
    /\ Synthesized[1].hashring = receiver.hashrings[2].Name

\* the pass just run wrote the ConfigMap
ConfigMapWritten ==
    /\ ReceivePassSynthesized
    /\ \E i \in DOMAIN last.sent : ObjKey(last.sent[i]) = ConfigMapKey

Unpopulated(shard) == ~ObservedReady(shard) /\ PreviousEntries(shard) = {}

\* C8 (as claimed): when some declared hashring has no ready endpoint and no
\* entry persisted before, the ConfigMap written by the pass holds `[]`
C8_UnpopulatedShardGivesEmptyConfig ==
    ConfigMapWritten /\ (\E s \in DeclaredShards : Unpopulated(s))
        => objects[ConfigMapKey].data = EmptyHashringConfig

\* C8 (amended): the ConfigMap written by the pass holds no entry for a declared
\* hashring that has no ready endpoint and no entry persisted before, and holds
\* `[]` when that is so of every declared hashring
C8_UnpopulatedShardGivesNoEntry ==
    ConfigMapWritten =>
        /\ \A s \in DeclaredShards :
             Unpopulated(s) => EntryIndices(objects[ConfigMapKey].data, s) = {}
        /\ (\A s \in DeclaredShards : Unpopulated(s))
             => objects[ConfigMapKey].data = EmptyHashringConfig

\* one hashring is listed, the other, without endpoints, is not
C8_Witness ==
    /\ ConfigMapWritten
    /\ \E s, t \in DeclaredShards :
         /\ Unpopulated(s) /\ ObservedReady(t)
         /\ EntryIndices(objects[ConfigMapKey].data, s) = {}
         /\ EntryIndices(objects[ConfigMapKey].data, t) # {}

\* the entries the stored ConfigMap holds for a shard
PersistedEntries(shard) ==
    IF objects[ConfigMapKey] = NoObj THEN {}
    ELSE { e \in Range(objects[ConfigMapKey].data) : e.hashring = shard }

\* C9: a declared hashring without ready endpoints keeps, in the table the pass
\* synthesizes and in the ConfigMap it writes, the endpoint list of the entry
\* that the ConfigMap stored when the pass began held for it
C9_Preservation ==
    [][ ReceivePassSynthesized' =>
          \A s \in DeclaredShards' : \A prev \in PersistedEntries(s) :
              ~ObservedReady(s)' /\ prev.endpoints # <<>> =>
                  /\ \E i \in DOMAIN Synthesized' :
                       /\ Synthesized'[i].hashring = s
                       /\ Synthesized'[i].endpoints = prev.endpoints
                  /\ ConfigMapWritten' =>
                       \E i \in DOMAIN objects'[ConfigMapKey].data :
                          /\ objects'[ConfigMapKey].data[i].hashring = s
                          /\ objects'[ConfigMapKey].data[i].endpoints = prev.endpoints ]_vars

C9_Witness ==
    /\ ConfigMapWritten
    /\ \E s \in DeclaredShards : \E prev \in PreviousEntries(s) :
         /\ ~ObservedReady(s)
         /\ Len(prev.endpoints) = 3
         /\ \E i \in DOMAIN objects[ConfigMapKey].data :
              /\ objects[ConfigMapKey].data[i].hashring = s
              /\ objects[ConfigMapKey].data[i].endpoints = prev.endpoints

\* ".svc.cluster.local:19291"
AddressSuffix ==
    <<46, 115, 118, 99, 46, 99, 108, 117, 115, 116, 101, 114, 46, 108, 111, 99, 97, 108,
      58, 49, 57, 50, 57, 49>>

\* <hostname>.<subject>-<shard>.<namespace>.svc.cluster.local:19291
ExpectedAddress(hostname, shard) ==
    hostname \o <<46>> \o ReceiveName \o <<45>> \o shard \o <<46>> \o Namespace
        \o AddressSuffix

Hostnames == {SomeHostname, SomeHostnameB, SomeHostnameC}

\* C10: in every entry of the synthesized table the addresses ascend strictly
\* in byte order (sorted, no duplicate) and each is
\* <hostname>.<subject>-<shard>.<namespace>.svc.cluster.local:19291; the
\* hostnames some-hostname, some-hostname-b, some-hostname-c are listed in the
\* order some-hostname-b, some-hostname-c, some-hostname
C10_AddressesSortedAndQualified ==
    ReceivePassSynthesized =>
        \A n \in DOMAIN Synthesized :
            LET e == Synthesized[n]
            IN  /\ \A i, j \in DOMAIN e.endpoints :
                     i < j => StrLess(e.endpoints[i], e.endpoints[j])
                /\ \A i \in DOMAIN e.endpoints :
                     \E h \in Hostnames : e.endpoints[i] = ExpectedAddress(h, e.hashring)
                /\ Len(e.endpoints) = 3 =>
                     e.endpoints = << ExpectedAddress(SomeHostnameB, e.hashring),
                                      ExpectedAddress(SomeHostnameC, e.hashring),
                                      ExpectedAddress(SomeHostname, e.hashring) >>

\* two slices of one hashring list some-hostname as ready, and the entry names
\* it once, after some-hostname-b and some-hostname-c
C10_Witness ==
    /\ ReceivePassSynthesized
    /\ \E n \in DOMAIN Synthesized :
         /\ Len(Synthesized[n].endpoints) = 3
         /\ Synthesized[n].endpoints[3] = ExpectedAddress(SomeHostname, Synthesized[n].hashring)
         /\ Cardinality({ e \in slices :
                            e.serviceName = ReceiveName \o Dash \o Synthesized[n].hashring }) = 2
         /\ ObservedReady(Synthesized[n].hashring)

----------------------------------------------------------------------------
(* The counters of the ThanosReceive reconciler under passes for two keys. *)
(* Reconcile counts the pass on entry and counts a failure before it       *)
(* returns; passes for distinct keys run on different workers, so one may  *)
(* start and finish while another is in flight.                            *)

\* "to": a key under which no ThanosReceive exists
OtherName == <<116, 111>>

Keys == {ReceiveName, OtherName}

\* the ThanosReceive a key names
SubjectOf(key) == IF key = ReceiveName THEN receiver ELSE [NoReceive EXCEPT !.name = key]

\* Reconcile is entered for a key that has no pass in flight:
\* r.reconciliationsTotal.Inc()
StartPass ==
    /\ passes.started < MaxPasses
    /\ \E key \in Keys \ inflight :
         /\ inflight' = inflight \cup {key}
         /\ metrics' = [metrics EXCEPT !.reconciliationsTotal = @ + 1]
         /\ passes' = [passes EXCEPT !.started = @ + 1]
    /\ UNCHANGED <<receiver, query, slices, services, objects, last, queue,
                   queriers, queryQueue, mapped>>

\* the rest of Reconcile for a key whose pass is in flight
FinishPass ==
    /\ \E key \in inflight :
       \E rcv \in {SubjectOf(key)} :
       \E getErr \in BOOLEAN :
       \E cmErr \in IF getErr \/ ~rcv.exists \/ rcv.deleting THEN {FALSE} ELSE BOOLEAN :
       \E listErr \in IF cmErr \/ getErr \/ ~rcv.exists \/ rcv.deleting
                         \/ rcv.hashrings = <<>>
                      THEN {FALSE} ELSE BOOLEAN :
       \E conf \in {IF rcv.exists
                    THEN buildHashringConfig(rcv, objects, slices, cmErr, listErr)
                    ELSE NoPass.conf} :
       \E faults \in IF cmErr \/ listErr \/ getErr \/ ~rcv.exists \/ rcv.deleting
                     THEN {[i \in 1..(3 * Len(rcv.hashrings) + 1) |-> "none"]}
                     ELSE FaultAssignments(3 * Len(rcv.hashrings) + 1) :
       \E r \in {ReceiveReconcileResult(rcv, objects, conf, getErr, faults)} :
         /\ objects' = r.store
         /\ last' = r.pass
         /\ inflight' = inflight \ {key}
         /\ metrics' = [metrics EXCEPT !.reconciliationsFailedTotal =
                                           @ + r.pass.reconciliationsFailedTotal]
         /\ passes' = [passes EXCEPT !.failed = @ + IF r.pass.err THEN 1 ELSE 0]
    /\ UNCHANGED <<receiver, query, slices, services, queue, queriers, queryQueue,
                   mapped>>

NextMetrics ==
    \/ CreateReceive
    \/ DeleteReceive
    \/ StartPass
    \/ FinishPass

SpecMetrics == Init /\ [][NextMetrics]_vars

----------------------------------------------------------------------------
(* The endpoint-slice watch of the ThanosReceive controller.               *)
(* buildController registers the subject itself (For), the objects it owns *)
(* (Owns) and endpoint slices (Watches) as sources of requests; a worker   *)
(* takes every request off the queue and runs Reconcile for it.            *)

\* "svc": the Service that owns test-ep-slice-1 and does not exist
MissingService == <<115, 118, 99>>

\* the endpoint slices users and the platform may create:
\*   those of the Service of a hashring; one of them without the ingest
\*   component label; one with the labels but no owner reference; one with no
\*   owner reference and no service-name label ("no-onwer-ref"); one owned by a
\*   Service users may create ("test-ep-slice-1" of "svc"); one in another
\*   namespace; one with a second owner reference
WatchedSlices ==
    { EndpointSlice(id, IngesterNameFromParent(ReceiveName, s)) :
        id \in SliceIds, s \in ShardNames }
    \cup { [EndpointSlice(1, IngesterNameFromParent(ReceiveName, DeclaredNames[1]))
              EXCEPT !.component = FALSE],
           [EndpointSlice(1, IngesterNameFromParent(ReceiveName, DeclaredNames[1]))
              EXCEPT !.owners = <<>>],
           [EndpointSlice(1, <<>>) EXCEPT !.owners = <<>>],
           [EndpointSlice(1, <<>>)
              EXCEPT !.owners = << [kind |-> KindService, name |-> MissingService] >>],
           [EndpointSlice(1, IngesterNameFromParent(ReceiveName, DeclaredNames[1]))
              EXCEPT !.namespace = OtherNamespace],
           [EndpointSlice(1, IngesterNameFromParent(ReceiveName, DeclaredNames[1]))
              EXCEPT !.owners = @ \o << [kind |-> "Node", name |-> <<110>>] >>] }

\* the label selector predicate of the endpoint-slice watch
endpointSlicePredicate(obj) == obj.component

\* c.Get of a Service by namespace and name: the set of 0 or 1 Service found
GetService(store, namespace, name) ==
    { store[k] : k \in { j \in DOMAIN store :
                           /\ j = [kind |-> KindService, name |-> name]
                           /\ store[j] # NoObj
                           /\ store[j].namespace = namespace } }

\* a map function that takes the owner of the Service whatever its kind
enqueueForEndpointSliceAnyOwner(obj, store) ==
    IF Len(obj.owners) # 1 \/ obj.owners[1].kind # KindService THEN {}
    ELSE { svc.owner.name : svc \in GetService(store, obj.namespace, obj.owners[1].name) }

\* a map function that looks for a ThanosReceive as the owner of the slice
enqueueForEndpointSliceOwnedBySubject(obj, store) ==
    IF Len(obj.owners) # 1 \/ obj.owners[1].kind # "ThanosReceive" THEN {}
    ELSE {obj.owners[1].name}

\* enqueueForEndpointSlice: the names of the requests its map function returns
enqueueForEndpointSlice(obj, store) ==
    IF Len(obj.owners) # 1 \/ obj.owners[1].kind # KindService THEN {}
    ELSE LET found == GetService(store, obj.namespace, obj.owners[1].name)
         IN  IF found = {} THEN {}
             ELSE { svc.owner.name : svc \in { f \in found : f.owner.kind = "ThanosReceive" } }

\* the store a Get reads: a Get that fails finds nothing
Readable(store, getErr) == IF getErr THEN [k \in DOMAIN store |-> NoObj] ELSE store

\* the map function of the endpoint-slice watch: the requests it returns, in
\* the namespace of the slice, and what it adds to its counter
mapEndpointSlice(obj, store) ==
    LET names == enqueueForEndpointSlice(obj, store)
    IN  IF names = {}
        THEN [requests |-> <<>>, endpointWatchesReconciliationsTotal |-> 0]
        ELSE [requests |-> << [Namespace |-> obj.namespace,
                               Name |-> CHOOSE n \in names : TRUE] >>,
              endpointWatchesReconciliationsTotal |-> 1]

\* For(&ThanosReceive{}): creating the subject enqueues a request for it
WatchCreateReceive ==
    /\ ~receiver.exists
    /\ queriers = {} /\ services = {}
    /\ \E hr \in HashringLists :
         receiver' = [NoReceive EXCEPT !.exists = TRUE, !.hashrings = hr]
    /\ queue' = queue \cup {ReceiveName}
    /\ last' = NoPass
    /\ mapped' = NoMapping
    /\ UNCHANGED <<query, slices, services, objects, inflight, metrics, passes,
                   queriers, queryQueue>>

\* Watches(&EndpointSlice{}, enqueueForEndpointSlice, predicates): a created
\* slice that passes the predicate goes through the map function, whose Get
\* of the owner Service fails or not as getErrs allows
EndpointSliceEvent(getErrs) ==
    /\ queriers = {} /\ services = {}
    /\ Cardinality(slices) < MaxSlices
    /\ \E e \in WatchedSlices \ slices, getErr \in getErrs :
         /\ slices' = slices \cup {e}
         /\ IF endpointSlicePredicate(e)
            THEN \E m \in {mapEndpointSlice(e, Readable(objects, getErr))} :
                   /\ queue' = queue \cup { m.requests[i].Name : i \in DOMAIN m.requests }
                   /\ metrics' = [metrics EXCEPT !.endpointWatchesReconciliationsTotal =
                                      @ + m.endpointWatchesReconciliationsTotal]
                   /\ mapped' = [source |-> "slice", obj |-> e,
                                 requests |-> m.requests, failed |-> getErr]
            ELSE /\ ~getErr
                 /\ mapped' = NoMapping
                 /\ UNCHANGED <<queue, metrics>>
    /\ last' = NoPass
    /\ UNCHANGED <<receiver, query, services, objects, inflight, passes,
                   queriers, queryQueue>>

\* the watch when no call of the platform fails
WatchCreateEndpointSlice == EndpointSliceEvent({FALSE})

\* a worker takes the request off the queue and runs Reconcile, no call of
\* which fails; Owns(...): a pass that changed an owned object enqueues the
\* subject again
WatchPass ==
    /\ ReceiveName \in queue
    /\ \E conf \in {buildHashringConfig(receiver, objects, slices, FALSE, FALSE)} :
       \E faults \in {[i \in 1..(3 * Len(receiver.hashrings) + 1) |-> "none"]} :
       \E r \in {ReceiveReconcileResult(receiver, objects, conf, FALSE, faults)} :
         /\ objects' = r.store
         /\ last' = r.pass
         /\ queue' = IF r.store # objects THEN queue ELSE queue \ {ReceiveName}
    /\ mapped' = NoMapping
    /\ UNCHANGED <<receiver, query, slices, services, inflight, metrics, passes,
                   queriers, queryQueue>>

NextWatch ==
    \/ WatchCreateReceive
    \/ WatchCreateEndpointSlice
    \/ WatchPass

\* every request on the queue is processed: the workers of the controller
\* loop over the queue for as long as the manager runs
SpecWatch == Init /\ [][NextWatch]_vars /\ WF_vars(WatchPass)

----------------------------------------------------------------------------
(* The Service watch of the ThanosQuery controller, beside the endpoint-   *)
(* slice watch: several ThanosQuery objects share a namespace, users       *)
(* create Services, and the Get and List calls of the map functions may    *)
(* fail.  The two watches read disjoint state (one the Services of the     *)
(* store, the other the ThanosQuery objects), so the events of one watch   *)
(* are followed at a time.                                                 *)

\* the most ThanosQuery objects in the cluster
MaxQueriers == 2

PartOfLabel == "app.kubernetes.io/part-of"
DefaultPartOfLabel == "thanos"
DefaultStoreAPIValue == "true"

\* "tp": a second ThanosQuery
OtherQueryName == <<116, 112>>

\* the ThanosQuery objects users may create: selecting every store, or only
\* the strict ones; named "tq", "tp" or "tr-b"
WatchedQueriers ==
    { [NoQuery EXCEPT !.exists = TRUE, !.name = n, !.namespace = ns,
                      !.matchLabels = [k \in L |-> "true"]] :
        n \in {QueryName, OtherQueryName, <<116, 114, 45, 98>>},
        ns \in {Namespace, OtherNamespace},
        L \in {{DefaultStoreAPILabel}, {DefaultStoreAPILabel, StrictLabel}} }

\* a Service carrying the labels L, the part-of label with its default value
ServiceLabelled(name, namespace, L) ==
    [name |-> name, namespace |-> namespace,
     labels |-> [k \in L |-> IF k = PartOfLabel THEN DefaultPartOfLabel ELSE "true"],
     ports |-> << [Name |-> "grpc", Port |-> 10901] >>]

\* the Services users may create: "sa" a store, "sb" a strict store, "sc" a
\* store that is not part of thanos, "sd" not a store
WatchedServices ==
    { ServiceLabelled(<<115, 97>>, ns, {PartOfLabel, DefaultStoreAPILabel}) :
        ns \in {Namespace, OtherNamespace} }
    \cup { ServiceLabelled(<<115, 98>>, Namespace,
                           {PartOfLabel, DefaultStoreAPILabel, StrictLabel}),
           ServiceLabelled(<<115, 99>>, Namespace, {DefaultStoreAPILabel}),
           ServiceLabelled(<<115, 100>>, Namespace, {PartOfLabel}) }

\* the label selector predicate of the Service watch
servicePredicate(obj) ==
    /\ HasLabel(obj, PartOfLabel) /\ obj.labels[PartOfLabel] = DefaultPartOfLabel
    /\ HasLabel(obj, DefaultStoreAPILabel)
    /\ obj.labels[DefaultStoreAPILabel] = DefaultStoreAPIValue

\* r.List(ctx, queriers, client.InNamespace(obj.GetNamespace()))
ListQueriers(qs, namespace) == { q \in qs : q.namespace = namespace }

\* a map function that stops at the first ThanosQuery that matches
enqueueForServiceFirstMatch(obj, items, listErr) ==
    LET matching == SelectSeq(items, LAMBDA q : MatchesLabels(obj, q.matchLabels))
    IN  IF listErr \/ matching = <<>> THEN <<>>
        ELSE << [Namespace |-> matching[1].namespace, Name |-> matching[1].name] >>

\* enqueueForService: the requests its map function returns for a Service,
\* items being the ThanosQuery objects the List answered, in its order
enqueueForService(obj, items, listErr) ==
    IF ~(HasLabel(obj, DefaultStoreAPILabel)
           /\ obj.labels[DefaultStoreAPILabel] = DefaultStoreAPIValue)
    THEN <<>>
    ELSE IF listErr THEN <<>>
    ELSE LET matching == SelectSeq(items, LAMBDA q : MatchesLabels(obj, q.matchLabels))
         IN  [i \in 1..Len(matching) |->
                [Namespace |-> matching[i].namespace, Name |-> matching[i].name]]

\* For(&ThanosQuery{}): creating a ThanosQuery enqueues a request for it
WatchCreateQuery ==
    /\ slices = {}
    /\ objects[[kind |-> KindService, name |-> MissingService]] = NoObj
    /\ Cardinality(queriers) < MaxQueriers
    /\ \E q \in WatchedQueriers :
         /\ \A other \in queriers : other.name # q.name \/ other.namespace # q.namespace
         /\ queriers' = queriers \cup {q}
         /\ queryQueue' = queryQueue \cup {[Namespace |-> q.namespace, Name |-> q.name]}
    /\ last' = NoPass
    /\ mapped' = NoMapping
    /\ UNCHANGED <<receiver, query, slices, services, objects, queue, inflight,
                   metrics, passes>>

\* Watches(&Service{}, enqueueForService, predicates): a created Service that
\* passes the predicate goes through the map function
WatchCreateService ==
    /\ slices = {}
    /\ objects[[kind |-> KindService, name |-> MissingService]] = NoObj
    /\ Cardinality(services) < MaxServices
    /\ \E svc \in WatchedServices :
         /\ \A other \in services :
               other.name # svc.name \/ other.namespace # svc.namespace
         /\ services' = services \cup {svc}
         /\ IF servicePredicate(svc)
            THEN \E listErr \in BOOLEAN :
                 \E items \in IF listErr THEN {<<>>}
                              ELSE Listings(ListQueriers(queriers, svc.namespace)) :
                 \E reqs \in {enqueueForService(svc, items, listErr)} :
                   /\ queryQueue' = queryQueue \cup Range(reqs)
                   /\ mapped' = [source |-> "service", obj |-> svc,
                                 requests |-> reqs, failed |-> listErr]
            ELSE /\ mapped' = NoMapping
                 /\ UNCHANGED queryQueue
    /\ last' = NoPass
    /\ UNCHANGED <<receiver, query, slices, objects, queue, inflight, metrics,
                   passes, queriers>>

\* a user creates the Service "svc": with no owner reference, or owned by a
\* Deployment of theirs
CreateUserService ==
    /\ queriers = {} /\ services = {}
    /\ objects[[kind |-> KindService, name |-> MissingService]] = NoObj
    /\ \E owner \in { [kind |-> "none", name |-> <<>>],
                       [kind |-> KindDeployment, name |-> <<100>>] } :
         objects' = [objects EXCEPT ![[kind |-> KindService, name |-> MissingService]] =
                        [namespace |-> Namespace, owner |-> owner, data |-> "user"]]
    /\ last' = NoPass
    /\ mapped' = NoMapping
    /\ UNCHANGED <<receiver, query, slices, services, queue, inflight, metrics,
                   passes, queriers, queryQueue>>

\* the endpoint-slice watch when the Get of the owner Service may fail
MapEndpointSlice == EndpointSliceEvent(BOOLEAN)

NextMappings ==
    \/ WatchCreateReceive
    \/ WatchPass
    \/ CreateUserService
    \/ MapEndpointSlice
    \/ WatchCreateQuery
    \/ WatchCreateService

SpecMappings == Init /\ [][NextMappings]_vars

\* the pass just run is a query-tier pass that observed the services
QueryPassObserved ==
    /\ last.tier = "query" /\ last.fetch = "ok"

\* the service an observed endpoint names
ObservedService(ep) ==
    CHOOSE svc \in services : svc.name = ep.ServiceName /\ svc.namespace = ep.Namespace

Carries(svc, label) == label \in DOMAIN svc.labels

\* C14: the class of every observed service is strict when it carries the
\* strict label, whatever else it carries; else group-strict when it carries
\* that label; else group when it carries that label; else regular
C14_StrictnessPrecedence ==
    QueryPassObserved =>
        \A i \in DOMAIN last.endpoints :
            LET svc == ObservedService(last.endpoints[i])
                type == last.endpoints[i].Type
            IN  /\ Carries(svc, StrictLabel) => type = StrictLabel
                /\ ~Carries(svc, StrictLabel) /\ Carries(svc, GroupStrictLabel)
                     => type = GroupStrictLabel
                /\ ~Carries(svc, StrictLabel) /\ ~Carries(svc, GroupStrictLabel)
                     /\ Carries(svc, GroupLabel) => type = GroupLabel
                /\ ~Carries(svc, StrictLabel) /\ ~Carries(svc, GroupStrictLabel)
                     /\ ~Carries(svc, GroupLabel) => type = RegularLabel

\* a service that carries the strict, group-strict and group labels is strict
C14_Witness ==
    /\ QueryPassObserved
    /\ \E i \in DOMAIN last.endpoints :
         LET svc == ObservedService(last.endpoints[i])
         IN  /\ Carries(svc, StrictLabel) /\ Carries(svc, GroupStrictLabel)
             /\ Carries(svc, GroupLabel)
             /\ last.endpoints[i].Type = StrictLabel

\* the port a Service declares under the name grpc, 0 when it declares none
GrpcPortOf(svc) ==
    IF \E i \in DOMAIN svc.ports : svc.ports[i].Name = "grpc"
    THEN svc.ports[CHOOSE i \in DOMAIN svc.ports : svc.ports[i].Name = "grpc"].Port
    ELSE 0

\* the services of the subject's namespace that match its store label selector
MatchingServices ==
    { svc \in services :
        /\ svc.namespace = query.namespace
        /\ \A k \in DOMAIN query.matchLabels :
             k \in DOMAIN svc.labels /\ svc.labels[k] = query.matchLabels[k] }

\* C15 (as claimed): the endpoint of every matched service carries the port
\* number of the service's port named grpc, or 0 when it has none, and every
\* matched service has its endpoint
C15_EndpointCarriesGrpcPort ==
    QueryPassObserved /\ ~last.listFailed =>
        /\ { last.endpoints[i].ServiceName : i \in DOMAIN last.endpoints }
             = { svc.name : svc \in MatchingServices }
        /\ \A i \in DOMAIN last.endpoints :
             last.endpoints[i].Port = GrpcPortOf(ObservedService(last.endpoints[i]))

DeploymentKey == [kind |-> KindDeployment, name |-> QueryName]

\* C16: the observation of services never fails a query-tier pass (it fails
\* only when an object fails); when the listing fails or matches nothing the
\* endpoint sequence is empty and the pass builds and attempts the
\* ServiceAccount, the Service and a Deployment without discovery argument
C16_ObserverNeverFailsPass ==
    QueryPassObserved =>
        /\ last.err <=> last.errCount > 0
        /\ last.listFailed \/ MatchingServices = {} =>
             /\ last.endpoints = <<>>
             /\ Len(last.built) = 3
             /\ last.attempted = KeysOf(last.built)
             /\ \E i \in DOMAIN last.built :
                  /\ ObjKey(last.built[i]) = DeploymentKey
                  /\ last.built[i].data = <<>>

\* the listing failed beside a service that matches, and the Deployment was
\* written without discovery argument by a pass that succeeded
C16_Witness ==
    /\ QueryPassObserved /\ last.listFailed /\ MatchingServices # {}
    /\ ~last.err
    /\ objects[DeploymentKey] # NoObj /\ objects[DeploymentKey].data = <<>>

\* "--endpoint=dnssrv+_grpc._tcp."
RegularArgPrefix ==
    <<45, 45, 101, 110, 100, 112, 111, 105, 110, 116, 61, 100, 110, 115, 115,
      114, 118, 43, 95, 103, 114, 112, 99, 46, 95, 116, 99, 112, 46>>
\* "--endpoint-strict=dnssrv+_grpc._tcp."
StrictArgPrefix ==
    <<45, 45, 101, 110, 100, 112, 111, 105, 110, 116, 45, 115, 116, 114, 105,
      99, 116, 61, 100, 110, 115, 115, 114, 118, 43, 95, 103, 114, 112, 99,
      46, 95, 116, 99, 112, 46>>
\* "--endpoint-group=dnssrv+_grpc._tcp."
GroupArgPrefix ==
    <<45, 45, 101, 110, 100, 112, 111, 105, 110, 116, 45, 103, 114, 111, 117,
      112, 61, 100, 110, 115, 115, 114, 118, 43, 95, 103, 114, 112, 99, 46,
      95, 116, 99, 112, 46>>
\* "--endpoint-group-strict=dnssrv+_grpc._tcp."
GroupStrictArgPrefix ==
    <<45, 45, 101, 110, 100, 112, 111, 105, 110, 116, 45, 103, 114, 111, 117,
      112, 45, 115, 116, 114, 105, 99, 116, 61, 100, 110, 115, 115, 114, 118,
      43, 95, 103, 114, 112, 99, 46, 95, 116, 99, 112, 46>>
\* ".svc.cluster.local"
DiscoverySuffix ==
    <<46, 115, 118, 99, 46, 99, 108, 117, 115, 116, 101, 114, 46, 108, 111,
      99, 97, 108>>

\* the discovery argument expected for a service
ExpectedArg(svc) ==
    (IF Carries(svc, StrictLabel) THEN StrictArgPrefix
     ELSE IF Carries(svc, GroupStrictLabel) THEN GroupStrictArgPrefix
     ELSE IF Carries(svc, GroupLabel) THEN GroupArgPrefix
     ELSE RegularArgPrefix)
        \o svc.name \o <<46>> \o svc.namespace \o DiscoverySuffix

\* the Deployment carries one argument per matching service, each service once,
\* in the order of the observed list, each of the form its class asks for
ArgumentsMatchServices ==
    LET args == objects[DeploymentKey].data
    IN  /\ Len(args) = Cardinality(MatchingServices)
        /\ Len(args) = Len(last.endpoints)
        /\ { last.endpoints[i].ServiceName : i \in DOMAIN last.endpoints }
             = { svc.name : svc \in MatchingServices }
        /\ \A i \in DOMAIN args :
             args[i] = ExpectedArg(ObservedService(last.endpoints[i]))

\* C17 (as claimed): after a successful query-tier pass the Deployment carries
\* exactly one discovery argument per matching service
C17_OneArgumentPerService ==
    QueryPassObserved /\ ~last.err => ArgumentsMatchServices

\* C17 (amended): after a successful query-tier pass whose listing of services
\* did not fail, the Deployment carries exactly one discovery argument per
\* service of the subject's namespace that matches its selector, in the order
\* of the observed list, with the flag of the service's class; after one whose
\* listing failed it carries none
C17_OneArgumentPerListedService ==
    QueryPassObserved /\ ~last.err =>
        IF last.listFailed THEN objects[DeploymentKey].data = <<>>
        ELSE ArgumentsMatchServices

\* two services match, one of them strict, beside one that does not match
C17_Witness ==
    /\ QueryPassObserved /\ ~last.err /\ ~last.listFailed
    /\ Cardinality(MatchingServices) = 2
    /\ Len(objects[DeploymentKey].data) = 2
    /\ \E svc \in MatchingServices :
         /\ Carries(svc, StrictLabel)
         /\ \E i \in DOMAIN objects[DeploymentKey].data :
              objects[DeploymentKey].data[i] =
                 StrictArgPrefix \o svc.name \o <<46>> \o svc.namespace \o DiscoverySuffix

\* the owner reference of the subject of the pass just run
LastSubjectRef ==
    [kind |-> IF last.tier = "receive" THEN "ThanosReceive" ELSE "ThanosQuery",
     name |-> LastSubject.name]

\* C18: every object a pass sends to the platform is in the subject's
\* namespace and has the subject as its controlling owner, and is stored so;
\* an object whose ownership linkage failed is counted as failed and is not
\* sent
C18_SentObjectsAreOwned ==
    PassApplied =>
        /\ \A i \in DOMAIN last.sent :
             /\ last.sent[i].namespace = LastSubject.namespace
             /\ last.sent[i].owner = LastSubjectRef
             /\ objects[ObjKey(last.sent[i])].owner = LastSubjectRef
             /\ objects[ObjKey(last.sent[i])].namespace = LastSubject.namespace
        /\ \A i \in DOMAIN last.ownerFailed :
             \A j \in DOMAIN last.sent : ObjKey(last.sent[j]) # last.ownerFailed[i]
        /\ Len(last.ownerFailed) <= last.errCount
        /\ Len(last.attempted) = Len(last.sent) + last.errCount

\* the linkage of one object failed and the objects after it were sent, owned
C18_Witness ==
    /\ PassApplied
    /\ Len(last.ownerFailed) = 1 /\ last.errCount = 1
    /\ last.attempted[1] = last.ownerFailed[1]
    /\ Len(last.sent) >= 2
    /\ \A i \in DOMAIN last.sent : last.sent[i].owner = LastSubjectRef

\* the pass just run applied its objects and none failed
PassSucceeded == PassApplied /\ ~last.err

\* C19 (as claimed): a pass that succeeds right after a pass of the same
\* subject that succeeded (nothing having changed in between) leaves every
\* object as it was and reports `unchanged` for every object it built
C19_SecondPassUnchanged ==
    [][ PassSucceeded /\ PassSucceeded' /\ last'.tier = last.tier =>
          /\ objects' = objects
          /\ Len(last'.ops) = Len(last'.built)
          /\ \A i \in DOMAIN last'.ops : last'.ops[i] = "unchanged" ]_vars

\* C19 (amended): the same, provided that a second query-tier pass observes
\* the service list the first one observed, in the same order
C19_SecondPassUnchangedOnSameObservation ==
    [][ /\ PassSucceeded /\ PassSucceeded' /\ last'.tier = last.tier
        /\ last'.endpoints = last.endpoints
        => /\ objects' = objects
           /\ Len(last'.ops) = Len(last'.built)
           /\ \A i \in DOMAIN last'.ops : last'.ops[i] = "unchanged" ]_vars

\* a pass over a subject with a hashring whose ConfigMap lists addresses
\* reported unchanged for its four objects
C19_Witness ==
    /\ PassSucceeded /\ last.tier = "receive"
    /\ Len(last.ops) >= 4
    /\ \A i \in DOMAIN last.ops : last.ops[i] = "unchanged"
    /\ objects[ConfigMapKey].data # EmptyHashringConfig

\* C20: with passes for distinct keys interleaved, the total counter equals the
\* number of passes started and the failed counter the number of passes that
\* returned an error, so failed never exceeds total
C20_CountersMatchPasses ==
    /\ metrics.reconciliationsTotal = passes.started
    /\ metrics.reconciliationsFailedTotal = passes.failed
    /\ metrics.reconciliationsFailedTotal <= metrics.reconciliationsTotal

\* a pass for one key started and failed while a pass for the other key, not
\* yet finished, was in flight, after a pass that succeeded
C20_Witness ==
    /\ inflight # {}
    /\ last.tier = "receive" /\ last.err
    /\ metrics.reconciliationsTotal >= 3
    /\ metrics.reconciliationsFailedTotal = 1

\* the hostnames of the endpoints flagged ready and serving and not
\* terminating in the slices labelled <subject>-<shard> in the subject's
\* namespace
ReadyHostnames(shard) ==
    { h \in Hostnames :
        \E e \in slices :
            /\ e.serviceName = ReceiveName \o <<45>> \o shard
            /\ e.namespace = receiver.namespace
            /\ \E i \in DOMAIN e.endpoints :
                 /\ e.endpoints[i].hostname = h
                 /\ e.endpoints[i].ready
                 /\ e.endpoints[i].serving
                 /\ ~e.endpoints[i].terminating }

\* the entries a routing table holds for a shard
EntriesOf(table, shard) == { table[i] : i \in EntryIndices(table, shard) }

\* C11: the addresses a pass resolves for a declared hashring are exactly those
\* of the endpoints flagged ready and serving and not terminating in the slices
\* labelled <subject>-<shard> in the subject's namespace; when there is no such
\* endpoint the pass resolves none and the table holds for the hashring what
\* the ConfigMap read by the pass held
C11_OnlyReadyLabelledEndpointsResolve ==
    ReceivePassSynthesized =>
        \A s \in DeclaredShards :
            IF ReadyHostnames(s) # {}
            THEN \A e \in EntriesOf(Synthesized, s) :
                    Range(e.endpoints) = { ExpectedAddress(h, s) : h \in ReadyHostnames(s) }
            ELSE EntriesOf(Synthesized, s) = PreviousEntries(s)

\* beside a slice of the hashring with one ready endpoint, one endpoint that is
\* not ready and one that is terminating there is a slice with the same label
\* in another namespace, and the entry of the hashring holds one address
C11_Witness ==
    /\ ReceivePassSynthesized
    /\ \E s \in DeclaredShards :
         /\ \E e \in slices : /\ e.serviceName = ReceiveName \o <<45>> \o s
                              /\ e.namespace = receiver.namespace
                              /\ e.id = 2
         /\ \E e \in slices : /\ e.serviceName = ReceiveName \o <<45>> \o s
                              /\ e.namespace # receiver.namespace
         /\ \E e \in EntriesOf(Synthesized, s) :
              e.endpoints = << ExpectedAddress(SomeHostname, s) >>

\* the shard whose Service owns a slice, as a set of 0 or 1 shard: the slice
\* has that Service, which the subject owns, as its one owner and is labelled
\* with its name
OwningShards(e) ==
    { s \in DeclaredShards :
        /\ e.owners = << [kind |-> KindService, name |-> ReceiveName \o <<45>> \o s] >>
        /\ e.serviceName = ReceiveName \o <<45>> \o s
        /\ \E svc \in GetService(objects, e.namespace, ReceiveName \o <<45>> \o s) :
             svc.owner = ReceiveRef }

\* the hostnames of the ready endpoints of one slice
ReadyHostnamesOf(e) ==
    { e.endpoints[i].hostname :
        i \in { j \in DOMAIN e.endpoints : /\ e.endpoints[j].ready
                                           /\ e.endpoints[j].serving
                                           /\ ~e.endpoints[j].terminating } }

\* the slices present that the Service of a shard owns and that carry a ready
\* endpoint
ShardSlices(shard) ==
    { e \in slices : shard \in OwningShards(e) /\ ReadyHostnamesOf(e) # {} }

\* the addresses the stored routing artifact lists for a shard
ArtifactAddresses(shard) ==
    IF objects[ConfigMapKey] = NoObj THEN {}
    ELSE UNION { Range(e.endpoints) : e \in EntriesOf(objects[ConfigMapKey].data, shard) }

\* the stored routing artifact lists exactly these hostnames for a shard
ArtifactLists(shard, hostnames) ==
    /\ objects[ConfigMapKey] # NoObj
    /\ \E e \in EntriesOf(objects[ConfigMapKey].data, shard) :
         Range(e.endpoints) = { ExpectedAddress(h, shard) : h \in hostnames }

RelevantSlices(sl, store) == { e \in sl : enqueueForEndpointSlice(e, store) # {} }

\* C13: the routing table a pass synthesizes is the table it would synthesize
\* with every endpoint slice that is irrelevant to the subject (no owner
\* reference, or an owner Service that does not exist or that no ThanosReceive
\* owns) left out
C13_IrrelevantSliceLeavesArtifact ==
    [][ ReceivePassSynthesized' =>
          Synthesized' =
            buildHashringConfig(receiver, objects, RelevantSlices(slices, objects),
                                FALSE, FALSE).obj.data ]_vars

\* the pass just run is an ingestion-tier pass over a subject that exists and
\* is not being deleted
ReceivePassOnActive == last.tier = "receive" /\ last.fetch = "ok" /\ ~last.deleting

\* the gauge hashringsConfigured{resource, namespace} of the subject after
\* the pass holds the number of hashrings the subject declares
GaugeHoldsDeclared ==
    /\ last.conf.hashringsConfigured.set
    /\ last.conf.hashringsConfigured.value = Len(receiver.hashrings)

PlatformCallFailed ==
    \/ last.fetch = "error"
    \/ last.listFailed
    \/ last.conf.err = "error"
    \/ last.errCount > 0

\* C22: a pass of either tier in which a platform call failed added to a
\* failure counter of its reconciler
C22_NoErrorUncounted ==
    last.tier \in {"receive", "query"} /\ PlatformCallFailed
        => last.reconciliationsFailedTotal + last.clientErrorsTotal > 0

\* C23: an ingestion-tier pass that does not find its subject adds nothing to
\* the failed-reconciliations counter and nothing to the client-errors counter
C23_NotFoundLeavesFailureMetrics ==
    last.tier = "receive" /\ last.fetch = "notfound"
        => last.reconciliationsFailedTotal = 0 /\ last.clientErrorsTotal = 0

----------------------------------------------------------------------------
(* No retry inside a pass *)

\* how many times x occurs in seq
Occurrences(seq, x) == Cardinality({ i \in DOMAIN seq : seq[i] = x })

AnyPass == last.tier \in {"receive", "query"}

\* C24: a pass makes at most one attempt per object it built, every attempt
\* ends either in one request sent to the platform or in one counted failure
\* that is not tried again, and the pass never asks for a requeue: a failed
\* pass only returns its error
C24_NoInternalRetry ==
    AnyPass =>
        /\ ~last.requeue
        /\ \A key \in Range(last.attempted) :
              Occurrences(last.attempted, key) <= Occurrences(KeysOf(last.built), key)
        /\ Len(last.attempted) <= Len(last.built)
        /\ Len(last.sent) + last.errCount = Len(last.attempted)
        /\ \A i \in DOMAIN last.sent :
              Occurrences(KeysOf(last.sent), ObjKey(last.sent[i])) = 1

\* a pass failed on one object, sent every other one once and returned
C24_Witness ==
    /\ AnyPass
    /\ last.err
    /\ ~last.requeue
    /\ last.errCount = 1
    /\ Len(last.built) > 1
    /\ Len(last.sent) = Len(last.built) - 1

----------------------------------------------------------------------------
(* Shards removed from the spec *)

\* the names of the objects of one kind the subject controls
OwnedNames(kind) == { k.name : k \in { o \in Owned(objects, ReceiveRef) : o.kind = kind } }

\* the names of the objects the declared shards are built under
DeclaredIngesters ==
    { IngesterNameFromParent(receiver.name, shard) : shard \in DeclaredShards }

\* the shards the published routing table has an entry for
PublishedShards ==
    IF objects[ConfigMapKey] = NoObj THEN {}
    ELSE { e.hashring : e \in Range(objects[ConfigMapKey].data) }

\* C25: after a successful ingestion-tier pass the shard workloads and the
\* network identities the subject owns are exactly those of the shards the
\* observed spec declares, and the routing table has entries of declared
\* shards only: a removed shard leaves nothing behind
C25_LastPassSupersedes ==
    ReceivePassOnActive /\ ~last.err =>
        /\ OwnedNames(KindStatefulSet) = DeclaredIngesters
        /\ OwnedNames(KindService) = DeclaredIngesters
        /\ PublishedShards \subseteq DeclaredShards

----------------------------------------------------------------------------
(* Watch-to-key mappings *)

\* the key of a ThanosQuery
KeyOf(q) == [Namespace |-> q.namespace, Name |-> q.name]

\* the ThanosQuery objects in the namespace of a Service whose store selector
\* matches it
SelectedBy(svc) ==
    { q \in queriers : q.namespace = svc.namespace /\ MatchesLabels(svc, q.matchLabels) }

----------------------------------------------------------------------------
(* The synthesis input *)

\* the shard settings a pass over the subject hands to the synthesis
SynthesisInput == HashringSettings(receiver, slices)

SettingOf(i) ==
    SynthesisInput[IngesterNameFromParent(receiver.name, receiver.hashrings[i].Name)]

\* C27: the synthesis input of a subject declaring N shards holds N settings,
\* keyed <subject>-<shard>, each with the name, tenants and replica count of
\* its shard and with priority N - i for 0-based position i: the priorities
\* are distinct, lie in 1..N and decrease in declared order
C27_SettingsAndPriorities ==
    receiver.exists =>
        LET N == Len(receiver.hashrings)
        IN  /\ Cardinality(DOMAIN SynthesisInput) = N
            /\ DOMAIN SynthesisInput =
                  { receiver.name \o <<45>> \o receiver.hashrings[i].Name : i \in 1..N }
            /\ \A i \in 1..N :
                  /\ SettingOf(i).OriginalName = receiver.hashrings[i].Name
                  /\ SettingOf(i).Tenants = receiver.hashrings[i].Tenants
                  /\ SettingOf(i).DesiredReplicasReplicas = receiver.hashrings[i].Replicas
                  /\ SettingOf(i).Priority = N - (i - 1)
                  /\ SettingOf(i).Priority \in 1..N
            /\ \A i, j \in 1..N : i < j => SettingOf(i).Priority > SettingOf(j).Priority

\* a pass synthesized the table of a subject declaring two shards that differ
\* in tenants and replica count
C27_Witness ==
    /\ ReceivePassOnActive
    /\ last.conf.err = "none"
    /\ Len(receiver.hashrings) = 2
    /\ SettingOf(1).Priority = 2 /\ SettingOf(2).Priority = 1
    /\ SettingOf(1).Tenants # SettingOf(2).Tenants
    /\ SettingOf(1).DesiredReplicasReplicas # SettingOf(2).DesiredReplicasReplicas

----------------------------------------------------------------------------
(* The endpoint-slice mapping *)

\* the Service a slice names as its one owner, as the store holds it
OwnerService(e) == objects[[kind |-> KindService, name |-> e.owners[1].name]]

\* the slice has one owner reference, of kind Service; a Get in the namespace
\* of the slice answers that Service; its owner reference is of kind
\* ThanosReceive
MapsToSubject(e, getFailed) ==
    /\ Len(e.owners) = 1
    /\ e.owners[1].kind = KindService
    /\ ~getFailed
    /\ [kind |-> KindService, name |-> e.owners[1].name] \in DOMAIN objects
    /\ OwnerService(e) # NoObj
    /\ OwnerService(e).namespace = e.namespace
    /\ OwnerService(e).owner.kind = "ThanosReceive"

EndpointEvents == metrics.endpointWatchesReconciliationsTotal

----------------------------------------------------------------------------
(* A synthesis that fails *)

\* the step is an ingestion-tier pass whose hashring synthesis failed with an
\* error other than ErrHashringsEmpty
SynthesisFailedPass ==
    /\ last'.tier = "receive" /\ last'.fetch = "ok" /\ ~last'.deleting
    /\ last'.conf.err = "error"

\* C29: a pass whose artifact read or endpoint-slice listing fails is reported
\* failed, adds one to the failed-reconciliations counter and applies nothing:
\* it attempts and sends no object and leaves the platform objects as they were
C29_SynthesisFailureAppliesNothing ==
    [][ SynthesisFailedPass =>
          /\ last'.err
          /\ ~last'.requeue
          /\ last'.reconciliationsFailedTotal = 1
          /\ last'.attempted = <<>> /\ last'.sent = <<>>
          /\ objects' = objects ]_vars

\* a pass over a subject declaring shards failed in its synthesis while the
\* platform held none of the objects of the shards
C29_Witness ==
    /\ last.tier = "receive" /\ last.fetch = "ok" /\ ~last.deleting
    /\ last.conf.err = "error"
    /\ last.err
    /\ Len(last.built) >= 3
    /\ last.reconciliationsFailedTotal = 1
    /\ Owned(objects, ReceiveRef) = {}

----------------------------------------------------------------------------
(* The objects of two subjects *)

\* the (kind, namespace, name) of the objects a pass builds for a subject
ReceiveDesiredKeys ==
    { [kind |-> o.kind, namespace |-> receiver.namespace, name |-> o.name] :
        o \in Range(buildHashrings(receiver, 1)
                      \o << NewObject(KindConfigMap, receiver.name, <<>>) >>) }

QueryDesiredKeys(q) ==
    { [kind |-> o.kind, namespace |-> q.namespace, name |-> o.name] :
        o \in Range(buildQuerier(q, <<>>, FALSE)) }

\* C30: the objects built for two distinct subjects have no (kind, namespace,
\* name) in common
C30_DesiredObjectsDisjoint ==
    /\ receiver.exists =>
          \A q \in queriers : ReceiveDesiredKeys \cap QueryDesiredKeys(q) = {}
    /\ \A q1, q2 \in queriers :
          q1 # q2 => QueryDesiredKeys(q1) \cap QueryDesiredKeys(q2) = {}

----------------------------------------------------------------------------
(* Services present during a query-tier pass *)

\* the step is a query-tier pass over a subject that was fetched
QueryPassStep == last'.tier = "query" /\ last'.fetch = "ok"

\* the endpoint list of the pass holds the service
Observed(svc) ==
    \E i \in DOMAIN last'.endpoints :
        /\ last'.endpoints[i].ServiceName = svc.name
        /\ last'.endpoints[i].Namespace = svc.namespace

\* the pass succeeded and the Deployment lost the argument it carried for the
\* service
ArgumentRemoved(svc) ==
    /\ ~last'.err
    /\ objects[DeploymentKey] # NoObj
    /\ ExpectedArg(svc) \in Range(objects[DeploymentKey].data)
    /\ ExpectedArg(svc) \notin Range(objects'[DeploymentKey].data)

----------------------------------------------------------------------------
(* Spec values.  The resource types give a hashring a Retention pointer   *)
(* and a StorageSize string, and a ThanosQuery a StoreLabelSelector        *)
(* pointer: a user may leave a pointer unset and write any string.         *)

\* the retention values of a hashring: unset, or "2h"
RetentionValues == { <<>>, << <<50, 104>> >> }

\* the storage sizes of a hashring: "100Mi", "abc", or the empty string
StorageSizeValues == { <<49, 48, 48, 77, 105>>, <<97, 98, 99>>, <<>> }

\* the hashrings of a name, with every retention and every storage size
HashringValues(name) ==
    { [Hashring(name) EXCEPT !.Retention = ret, !.StorageSize = size] :
        ret \in RetentionValues, size \in StorageSizeValues }

\* the hashring lists of at most MaxHashrings hashrings of unique names
HashringValueLists ==
    UNION { { hr \in [1..n -> UNION { HashringValues(DeclaredNames[i]) : i \in 1..n }] :
                \A i \in 1..n : hr[i].Name = DeclaredNames[i] } :
            n \in 0..MaxHashrings }

\* the ThanosReceive subjects users declare
ReceiveValues ==
    { [NoReceive EXCEPT !.exists = TRUE, !.hashrings = hr] : hr \in HashringValueLists }

\* the ThanosQuery subjects users declare: no store label selector, an empty
\* one, or the selector of the store API label
QueryValues ==
    { [NoQuery EXCEPT !.exists = TRUE, !.hasSelector = FALSE] }
    \cup { [NoQuery EXCEPT !.exists = TRUE, !.matchLabels = [k \in L |-> "true"]] :
              L \in { {}, {DefaultStoreAPILabel} } }

\* one subject exists, of either tier; services stand beside a ThanosQuery only
InitValues ==
    /\ \/ receiver \in ReceiveValues /\ query = NoQuery /\ services = {}
       \/ receiver = NoReceive /\ query \in QueryValues /\ services \in ServiceSets
    /\ slices = {}
    /\ objects = [k \in ObjectKeys |-> NoObj]
    /\ last = NoPass
    /\ queue = {}
    /\ inflight = {}
    /\ metrics = NoMetrics
    /\ passes = NoPasses
    /\ queriers = {}
    /\ queryQueue = {}
    /\ mapped = NoMapping

NextValues ==
    \/ ReceiveReconcile
    \/ QueryReconcile

SpecValues == InitValues /\ [][NextValues]_vars

\* the pass that led here fetched a subject that is not being deleted
PassOverActiveSubject ==
    /\ last.tier # "none" /\ last.fetch = "ok" /\ ~last.deleting

\* C32: every pass over a subject that exists and is not being deleted returns
\* a result or an error and does not crash, whatever spec values the subject
\* holds: a hashring with no retention, a hashring whose storage size is no
\* quantity, a ThanosQuery with no store label selector
C32_PassNeverCrashes == PassOverActiveSubject => ~last.panicked

====
